---- MODULE Spec2Model ----
(***************************************************************************)
(* Capture / correlation engine of crossing-the-narrow-sea:                *)
(*   - the Event Store (sqlite.ts): three keyed event tables, scan         *)
(*     progress, event failures;                                           *)
(*   - the Block Scanner (scan-runner.ts, event-utils.ts): a pool of       *)
(*     workers walking a height range with a commit cursor;                *)
(*   - the Correlator (match.ts): the offline join of the three tables.    *)
(* Tables are bags of rows, so that a duplicated row is representable and  *)
(* the uniqueness of keys is something the upserts have to establish.      *)
(***************************************************************************)
EXTENDS Integers, Sequences, FiniteSets, Bags, TLC

(***************************************************************************)
(* Bounds of the model.                                                    *)
(***************************************************************************)
MaxOps == 3

MaxEnd == 4

MaxWorkers == 2

MaxRestarts == 1

MaxEvents == 2

MaxBackoffMs == 3

(***************************************************************************)
(* Value universes.                                                        *)
(***************************************************************************)
Chains == {"consensus", "domain"}

OtherChain(c) == IF c = "domain" THEN "consensus" ELSE "domain"

ChainId(c) == IF c = "consensus" THEN 0 ELSE 1

Nonces == {"5", "6"}

Amounts == {"100", "95"}

Signers == {"addrA"}

AckResults == {"Ok", "Err"}

HashDigits == <<"1", "2", "3", "4", "5", "6", "7", "8">>

\* The hash of block h of chain c; hashes repeat after Len(HashDigits) heights,
\* which is longer than any range scanned here.
BlockHash(c, h) ==
  (IF c = "consensus" THEN "0xc" ELSE "0xd") \o HashDigits[((h - 1) % Len(HashDigits)) + 1]

\* A nullable column or field: Null, or Some(v).
Null == << >>

Some(v) == <<v>>

(***************************************************************************)
(* Event Store rows (sqlite.ts).                                           *)
(***************************************************************************)
SourceInit ==
  [source_chain : Chains, dst_chain_id : {0, 1}, channel_id : {1}, nonce : Nonces,
   from_address : Signers, amount : Amounts, source_block_height : {1},
   source_block_hash : {BlockHash(c, 1) : c \in Chains},
   source_extrinsic_index : {Some(0)}]

DestinationSuccess ==
  [destination_chain : Chains, src_chain_id : {0, 1}, channel_id : {1}, nonce : Nonces,
   amount : Amounts, destination_block_height : {1},
   destination_block_hash : {BlockHash(c, 1) : c \in Chains}]

SourceAck ==
  [source_chain : Chains, dst_chain_id : {0, 1}, channel_id : {1}, nonce : Nonces,
   result : AckResults, source_block_height : {1},
   source_block_hash : {BlockHash(c, 1) : c \in Chains}]

\* The rows the store actions draw from: rows as the scanner of a chain
\* writes them (chain ids and hashes follow from the chain).
SourceInitRows ==
  {r \in SourceInit : /\ r.dst_chain_id = ChainId(OtherChain(r.source_chain))
                      /\ r.source_block_hash = BlockHash(r.source_chain, r.source_block_height)}

DestinationSuccessRows ==
  {r \in DestinationSuccess :
      /\ r.src_chain_id = ChainId(OtherChain(r.destination_chain))
      /\ r.destination_block_hash = BlockHash(r.destination_chain, r.destination_block_height)}

SourceAckRows ==
  {r \in SourceAck : /\ r.dst_chain_id = ChainId(OtherChain(r.source_chain))
                     /\ r.source_block_hash = BlockHash(r.source_chain, r.source_block_height)}

\* PRIMARY KEY (source_chain, channel_id, nonce)
SourceInitKey(r) == <<r.source_chain, r.channel_id, r.nonce>>

\* PRIMARY KEY (destination_chain, channel_id, nonce)
DestinationSuccessKey(r) == <<r.destination_chain, r.channel_id, r.nonce>>

\* PRIMARY KEY (source_chain, channel_id, nonce)
SourceAckKey(r) == <<r.source_chain, r.channel_id, r.nonce>>

\* The rows of table T outside the set hit, and the number of copies in hit.
Without(T, hit) == [x \in (BagToSet(T) \ hit) |-> T[x]]

CopiesOf(T, hit) == BagCardinality([x \in hit |-> T[x]])

\* Mutants: a plain INSERT into a table without the key constraint.
upsertSourceInit_Insert(T, row) == T (+) SetToBag({row})

upsertDestinationSuccess_Insert(T, row) == T (+) SetToBag({row})

\* INSERT ... ON CONFLICT(source_chain, channel_id, nonce) DO UPDATE SET <every
\* non-key column> = excluded.<column>: the row holding the key becomes `row`.
upsertSourceInit(T, row) ==
  LET hit == {x \in BagToSet(T) : SourceInitKey(x) = SourceInitKey(row)}
  IN  IF hit = {} THEN T (+) SetToBag({row})
      ELSE Without(T, hit) (+) [x \in {row} |-> CopiesOf(T, hit)]

upsertDestinationSuccess(T, row) ==
  LET hit == {x \in BagToSet(T) : DestinationSuccessKey(x) = DestinationSuccessKey(row)}
  IN  IF hit = {} THEN T (+) SetToBag({row})
      ELSE Without(T, hit) (+) [x \in {row} |-> CopiesOf(T, hit)]

\* Mutant: ON CONFLICT DO NOTHING, the first row of a key stays.
upsertSourceAck_DoNothing(T, row) ==
  LET hit == {x \in BagToSet(T) : SourceAckKey(x) = SourceAckKey(row)}
  IN  IF hit = {} THEN T (+) SetToBag({row}) ELSE T

upsertSourceAck(T, row) ==
  LET hit == {x \in BagToSet(T) : SourceAckKey(x) = SourceAckKey(row)}
  IN  IF hit = {} THEN T (+) SetToBag({row})
      ELSE Without(T, hit) (+) [x \in {row} |-> CopiesOf(T, hit)]

\* Mutant: the row of the other chain is read.
getLastProcessedBlockHeight_OtherChain(P, chain) ==
  IF chain = "domain" THEN P["consensus"] ELSE P["domain"]

\* scan_progress: one row per chain, Null when the chain has no row.
getLastProcessedBlockHeight(P, chain) == IF P[chain] = Null THEN Null ELSE P[chain]

Max2(a, b) == IF a >= b THEN a ELSE b

\* Mutant: the cursor write overwrites (no MAX).
setLastProcessedBlockHeight_Overwrite(P, chain, height) ==
  [P EXCEPT ![chain] = Some(height)]

\* INSERT ... ON CONFLICT(chain) DO UPDATE SET
\*   last_block_height = MAX(last_block_height, excluded.last_block_height)
setLastProcessedBlockHeight(P, chain, height) ==
  [P EXCEPT ![chain] = IF @ = Null THEN Some(height) ELSE Some(Max2(@[1], height))]

(***************************************************************************)
(* Correlator (match.ts).                                                  *)
(***************************************************************************)
\* const ACK_MODE = process.env.ACK_MODE || 'dest-only'; "" is the unset
\* (or empty) variable.
EnvAckModes == {"", "dest-only", "ack-only", "both", "all"}

ACK_MODE(env) == IF env = "" THEN "dest-only" ELSE env

\* Mutant: the join on destination_successes without ds.destination_chain = Y.
JoinDs_AnyChain(i, succs, Y) ==
  LET m == {d \in BagToSet(succs) : d.channel_id = i.channel_id /\ d.nonce = i.nonce}
  IN  IF m = {} THEN {Null} ELSE {Some(d) : d \in m}

\* The rows of destination_successes / source_acks a source_inits row i is
\* LEFT JOINed with; one all-NULL row when nothing matches.
JoinDs(i, succs, Y) ==
  LET m == {d \in BagToSet(succs) : /\ d.channel_id = i.channel_id
                                    /\ d.nonce = i.nonce
                                    /\ d.destination_chain = Y}
  IN  IF m = {} THEN {Null} ELSE {Some(d) : d \in m}

\* Mutant: the join on source_acks without a.source_chain = X.
JoinAck_AnyChain(i, acks, X) ==
  LET m == {a \in BagToSet(acks) : a.channel_id = i.channel_id /\ a.nonce = i.nonce}
  IN  IF m = {} THEN {Null} ELSE {Some(a) : a \in m}

JoinAck(i, acks, X) ==
  LET m == {a \in BagToSet(acks) : /\ a.channel_id = i.channel_id
                                   /\ a.nonce = i.nonce
                                   /\ a.source_chain = X}
  IN  IF m = {} THEN {Null} ELSE {Some(a) : a \in m}

\* The SELECT list of d2cSql / c2dSql for one joined triple.
SelectRow(t) ==
  LET i == t[1]
      ds == t[2]
      a == t[3]
  IN  [from_address |-> i.from_address,
       channel_id |-> i.channel_id,
       nonce |-> i.nonce,
       amount |-> i.amount,
       source_block_height |-> i.source_block_height,
       source_block_hash |-> i.source_block_hash,
       source_extrinsic_index |-> i.source_extrinsic_index,
       dest_amount |-> IF ds = Null THEN Null ELSE Some(ds[1].amount),
       destination_block_height |->
          IF ds = Null THEN Null ELSE Some(ds[1].destination_block_height),
       destination_block_hash |->
          IF ds = Null THEN Null ELSE Some(ds[1].destination_block_hash),
       dest_present |-> IF ds # Null THEN Some(1) ELSE Null,
       ack_result |-> IF a = Null THEN Null ELSE Some(a[1].result)]

\* FROM source_inits i LEFT JOIN destination_successes ds ... LEFT JOIN
\* source_acks a ... WHERE i.source_chain = X, as a bag of result rows.
JoinSql(X, Y, inits, succs, acks) ==
  LET Is == {i \in BagToSet(inits) : i.source_chain = X}
      triples == UNION {UNION {{<<i, d, a>> : a \in JoinAck(i, acks, X)}
                                 : d \in JoinDs(i, succs, Y)} : i \in Is}
      copies(t) == inits[t[1]] * (IF t[2] = Null THEN 1 ELSE succs[t[2][1]])
                               * (IF t[3] = Null THEN 1 ELSE acks[t[3][1]])
  IN  BagOfAll(SelectRow, [t \in triples |-> copies(t)])

\* const asBoolean = (v) => v != null && v !== 0 && String(v) !== ''
asBoolean(v) == v # Null /\ v[1] # 0

destOk(r) == asBoolean(r.dest_present)

ackOk(r) == r.ack_result = Some("Ok")

\* Mutant: mode `both` asks for both confirmations.
include_BothNeedsBoth(mode, r) ==
  \/ mode = "dest-only" /\ destOk(r)
  \/ mode = "ack-only" /\ ackOk(r)
  \/ mode = "both" /\ (destOk(r) /\ ackOk(r))

\* Mutant: a mode that is none of the three is taken as `both`.
include_OtherModeAsBoth(mode, r) ==
  \/ mode = "dest-only" /\ destOk(r)
  \/ mode = "ack-only" /\ ackOk(r)
  \/ mode \notin {"dest-only", "ack-only"} /\ (destOk(r) \/ ackOk(r))

include(mode, r) ==
  \/ mode = "dest-only" /\ destOk(r)
  \/ mode = "ack-only" /\ ackOk(r)
  \/ mode = "both" /\ (destOk(r) \/ ackOk(r))

\* Mutant: destOk ? 'dest' : ackOk ? 'ack' : 'both'.
confirmedBy_DestFirst(r) ==
  IF destOk(r) THEN "dest" ELSE IF ackOk(r) THEN "ack" ELSE "both"

confirmedBy(r) ==
  IF destOk(r) /\ ackOk(r) THEN "both" ELSE IF destOk(r) THEN "dest" ELSE "ack"

\* Mutant: r.amount ?? r.dest_amount.
amountOf_InitFirst(r) == r.amount

\* amount: String(r.dest_amount ?? r.amount ?? '0'); i.amount is NOT NULL.
amountOf(r) == IF r.dest_amount # Null THEN r.dest_amount[1] ELSE r.amount

\* The MatchedTransferRow yielded for result row r.
MatchedTransferRow(direction, r) ==
  [direction |-> direction,
   from |-> r.from_address,
   channel_id |-> r.channel_id,
   nonce |-> r.nonce,
   amount |-> amountOf(r),
   source_block_height |-> r.source_block_height,
   source_block_hash |-> r.source_block_hash,
   source_extrinsic_index |-> r.source_extrinsic_index,
   dest_block_height |-> r.destination_block_height,
   dest_block_hash |-> r.destination_block_hash,
   confirmed_by |-> confirmedBy(r)]

\* Mutant: in modes dest-only and ack-only the label is the mode's own
\* confirmation.
buildIterator_LabelByMode(rows, mode, direction) ==
  LET kept == {r \in BagToSet(rows) : include(mode, r)}
      label(r) == IF mode = "dest-only" THEN "dest"
                  ELSE IF mode = "ack-only" THEN "ack" ELSE confirmedBy(r)
  IN  BagOfAll(LAMBDA r : [MatchedTransferRow(direction, r) EXCEPT !.confirmed_by = label(r)],
               [r \in kept |-> rows[r]])

\* buildIterator: the included result rows, mapped; a bag of records.
buildIterator(rows, mode, direction) ==
  LET kept == {r \in BagToSet(rows) : include(mode, r)}
  IN  BagOfAll(LAMBDA r : MatchedTransferRow(direction, r), [r \in kept |-> rows[r]])

\* Mutant: the two WHERE clauses are exchanged.
SourceOf_Exchanged(direction) == IF direction = "d2c" THEN "consensus" ELSE "domain"

\* WHERE i.source_chain = 'domain' in d2cSql, 'consensus' in c2dSql.
SourceOf(direction) == IF direction = "d2c" THEN "domain" ELSE "consensus"

Directions == {"d2c", "c2d"}

\* main: both directions, each written to its own file.
matchMain(env, inits, succs, acks) ==
  [dir \in Directions |->
     buildIterator(JoinSql(SourceOf(dir), OtherChain(SourceOf(dir)), inits, succs, acks),
                   ACK_MODE(env), dir)]

(***************************************************************************)
(* Chain content: the blocks the Chain Adapter returns.  Within one chain  *)
(* a (channel_id, nonce) occurs in at most one event of each kind.         *)
(***************************************************************************)
Ev(section, method, nonce, amount, result, phase, decodable) ==
  [section |-> section, method |-> method, channel_id |-> 1, nonce |-> nonce,
   amount |-> amount, result |-> result, phase |-> phase, decodable |-> decodable]

OTI(nonce, amount, phase) ==
  Ev("transporter", "OutgoingTransferInitiated", nonce, amount, "", phase, TRUE)

ITS(nonce, amount, decodable) ==
  Ev("transporter", "IncomingTransferSuccessful", nonce, amount, "", Null, decodable)

OMR(nonce, result) ==
  Ev("messenger", "OutboxMessageResult", nonce, Null, result, Null, TRUE)

OtherEvent == Ev("system", "ExtrinsicSuccess", "", Null, "", Some(0), TRUE)

Ext(isSigned, signer, callAmount) ==
  [isSigned |-> isSigned, signer |-> signer, callAmount |-> callAmount]

BlockExtrinsics(c, height) ==
  IF c = "domain"
  THEN CASE height = 1 -> <<Ext(TRUE, "addrA", Null)>>
         [] height = 2 -> <<Ext(FALSE, "", Null)>>
         [] height = 3 -> <<Ext(TRUE, "addrA", Null)>>
         [] height = 4 -> <<Ext(TRUE, "addrA", Null)>>
         [] OTHER -> << >>
  ELSE CASE height = 1 -> <<Ext(TRUE, "addrB", Some("100"))>>
         [] height = 3 -> <<Ext(FALSE, "", Null)>>
         [] OTHER -> << >>

\* domain: a signed transfer (nonce 5) and its acknowledgment; at height 3 a
\* deposit, an initiation with a stale extrinsic index and a non-Ok result; at
\* height 4 an undecodable deposit between an acknowledgment and a signed
\* transfer.  consensus: a signed transfer (nonce 6)
\* whose amount comes from the call, the deposit of nonce 5, an unsigned
\* initiation with an Err acknowledgment, an initiation outside any extrinsic.
BlockEvents(c, height) ==
  IF c = "domain"
  THEN CASE height = 1 -> <<OTI("5", Some("100"), Some(0))>>
         [] height = 2 -> <<OtherEvent, OMR("5", "Ok")>>
         [] height = 3 -> <<ITS("6", Some("95"), TRUE), OTI("7", Some("100"), Some(1)),
                            OMR("7", "Other")>>
         [] height = 4 -> <<OMR("8", "Ok"), ITS("8", Some("95"), FALSE),
                            OTI("9", Some("100"), Some(0))>>
         [] OTHER -> << >>
  ELSE CASE height = 1 -> <<OTI("6", Null, Some(0))>>
         [] height = 2 -> <<ITS("5", Some("95"), TRUE)>>
         [] height = 3 -> <<OTI("7", Some("100"), Some(0)), OMR("6", "Err")>>
         [] height = 4 -> <<OTI("8", Some("100"), Null), ITS("9", Some("95"), TRUE)>>
         [] OTHER -> << >>

(***************************************************************************)
(* Event extraction (event-utils.ts).                                      *)
(***************************************************************************)
EmptyStore == [inits |-> EmptyBag, succs |-> EmptyBag, acks |-> EmptyBag,
               failures |-> EmptyBag]

\* Append of one EventFailure record.
insertEventFailure(F, chain, blockHeight, extrinsicIndex, section, method, reason) ==
  F (+) SetToBag({[chain |-> chain, block_height |-> blockHeight,
                   block_hash |-> BlockHash(chain, blockHeight),
                   extrinsic_index |-> extrinsicIndex, section |-> section,
                   method |-> method, reason |-> reason]})

extractAmountFromCall(extrinsic) ==
  IF extrinsic = Null THEN Null ELSE extrinsic[1].callAmount

\* const extrinsicIndex = phase.isApplyExtrinsic ? phase.asApplyExtrinsic : null
extrinsicIndexOf(rec) == rec.phase

\* const extrinsic = extrinsicIndex != null ? extrinsics[extrinsicIndex] : undefined
\* (an index outside the array reads undefined).
extrinsicAt(extrinsics, extrinsicIndex) ==
  IF extrinsicIndex # Null /\ extrinsicIndex[1] >= 0 /\ extrinsicIndex[1] < Len(extrinsics)
  THEN Some(extrinsics[extrinsicIndex[1] + 1]) ELSE Null

\* The guard on the index reported for the event.
outOfRange(extrinsicIndex, extrinsics) ==
  extrinsicIndex # Null /\ (extrinsicIndex[1] < 0 \/ extrinsicIndex[1] >= Len(extrinsics))

\* Mutant: the signer is read whether or not the extrinsic is signed.
signerOf_IgnoreSignedFlag(extrinsic) ==
  IF extrinsic # Null THEN extrinsic[1].signer ELSE ""

\* let signer = ''; if (signedFlag) signer = anyExt?.signer?.toString?.() || ''
signerOf(extrinsic) ==
  IF extrinsic # Null /\ extrinsic[1].isSigned THEN extrinsic[1].signer ELSE ""

\* The store after an EventFailure for record rec is appended.
recordFailure(st, chain, rec, blockHeight, reason) ==
  [st EXCEPT !.failures = insertEventFailure(@, chain, blockHeight, extrinsicIndexOf(rec),
                                             rec.section, rec.method, reason)]

\* The row upsertSourceInit is called with.
SourceInitOf(chain, rec, extrinsics, blockHeight) ==
  LET extrinsicIndex == extrinsicIndexOf(rec)
      extrinsic == extrinsicAt(extrinsics, extrinsicIndex)
      fromCall == extractAmountFromCall(extrinsic)
  IN  [source_chain |-> chain,
       dst_chain_id |-> ChainId(OtherChain(chain)),
       channel_id |-> rec.channel_id,
       nonce |-> rec.nonce,
       from_address |-> signerOf(extrinsic),
       amount |-> IF rec.amount # Null THEN rec.amount[1]
                  ELSE IF fromCall # Null THEN fromCall[1] ELSE "0",
       source_block_height |-> blockHeight,
       source_block_hash |-> BlockHash(chain, blockHeight),
       source_extrinsic_index |-> extrinsicIndex]

\* Mutant: the out-of-range branch records the failure and falls through to
\* the signer check (no `continue`).
handleOutgoingTransferInitiated_NoContinue(st, chain, rec, extrinsics, blockHeight) ==
  LET extrinsicIndex == extrinsicIndexOf(rec)
      signer == signerOf(extrinsicAt(extrinsics, extrinsicIndex))
      st1 == IF outOfRange(extrinsicIndex, extrinsics)
             THEN recordFailure(st, chain, rec, blockHeight, "extrinsic_index_out_of_range")
             ELSE st
  IN  IF signer = ""
      THEN recordFailure(st1, chain, rec, blockHeight, "unsigned_or_signer_unavailable")
      ELSE [st1 EXCEPT !.inits =
              upsertSourceInit(@, SourceInitOf(chain, rec, extrinsics, blockHeight))]

\* The branch for transporter.OutgoingTransferInitiated of a decodable record.
handleOutgoingTransferInitiated(st, chain, rec, extrinsics, blockHeight) ==
  LET extrinsicIndex == extrinsicIndexOf(rec)
      signer == signerOf(extrinsicAt(extrinsics, extrinsicIndex))
  IN  IF outOfRange(extrinsicIndex, extrinsics)
      THEN recordFailure(st, chain, rec, blockHeight, "extrinsic_index_out_of_range")
      ELSE IF signer = ""
      THEN recordFailure(st, chain, rec, blockHeight, "unsigned_or_signer_unavailable")
      ELSE [st EXCEPT !.inits =
              upsertSourceInit(@, SourceInitOf(chain, rec, extrinsics, blockHeight))]

\* Mutant: the deposit is labelled with the chain the transfer came from.
DestinationSuccessOf_SourceChain(chain, rec, blockHeight) ==
  [destination_chain |-> OtherChain(chain),
   src_chain_id |-> ChainId(OtherChain(chain)),
   channel_id |-> rec.channel_id,
   nonce |-> rec.nonce,
   amount |-> IF rec.amount # Null THEN rec.amount[1] ELSE "0",
   destination_block_height |-> blockHeight,
   destination_block_hash |-> BlockHash(chain, blockHeight)]

\* The row upsertDestinationSuccess is called with.
DestinationSuccessOf(chain, rec, blockHeight) ==
  [destination_chain |-> chain,
   src_chain_id |-> ChainId(OtherChain(chain)),
   channel_id |-> rec.channel_id,
   nonce |-> rec.nonce,
   amount |-> IF rec.amount # Null THEN rec.amount[1] ELSE "0",
   destination_block_height |-> blockHeight,
   destination_block_hash |-> BlockHash(chain, blockHeight)]

\* Mutant: the result is stored as the event gives it.
SourceAckOf_RawResult(chain, rec, blockHeight) ==
  [source_chain |-> chain,
   dst_chain_id |-> ChainId(OtherChain(chain)),
   channel_id |-> rec.channel_id,
   nonce |-> rec.nonce,
   result |-> rec.result,
   source_block_height |-> blockHeight,
   source_block_hash |-> BlockHash(chain, blockHeight)]

\* The row upsertSourceAck is called with.
SourceAckOf(chain, rec, blockHeight) ==
  [source_chain |-> chain,
   dst_chain_id |-> ChainId(OtherChain(chain)),
   channel_id |-> rec.channel_id,
   nonce |-> rec.nonce,
   result |-> IF rec.result = "Ok" THEN "Ok" ELSE "Err",
   source_block_height |-> blockHeight,
   source_block_hash |-> BlockHash(chain, blockHeight)]

IsOTI(rec) == rec.section = "transporter" /\ rec.method = "OutgoingTransferInitiated"

IsITS(rec) == rec.section = "transporter" /\ rec.method = "IncomingTransferSuccessful"

\* Mutant: the method is not compared.
IsOMR_AnyMethod(rec) == rec.section = "messenger"

IsOMR(rec) == rec.section = "messenger" /\ rec.method = "OutboxMessageResult"

\* One iteration of the loop of processXdmEvents over record rec.  Reading
\* the data of an undecodable record throws inside the try block; the catch
\* records the failure and the loop continues.
processRecord(st, chain, rec, extrinsics, blockHeight) ==
  IF ~(IsOTI(rec) \/ IsITS(rec) \/ IsOMR(rec)) THEN st
  ELSE IF ~rec.decodable
  THEN recordFailure(st, chain, rec, blockHeight, "unexpected_error")
  ELSE IF IsOTI(rec)
  THEN handleOutgoingTransferInitiated(st, chain, rec, extrinsics, blockHeight)
  ELSE IF IsITS(rec)
  THEN [st EXCEPT !.succs =
          upsertDestinationSuccess(@, DestinationSuccessOf(chain, rec, blockHeight))]
  ELSE [st EXCEPT !.acks = upsertSourceAck(@, SourceAckOf(chain, rec, blockHeight))]

\* Mutant: a failing record ends the loop (the failure is recorded, the
\* remaining records are skipped).
RECURSIVE processFrom_StopAtFailure(_, _, _, _, _, _, _)
processFrom_StopAtFailure(st, chain, events, extrinsics, blockHeight, k, last) ==
  IF k > last THEN st
  ELSE LET nxt == processRecord(st, chain, events[k], extrinsics, blockHeight)
       IN  IF nxt.failures # st.failures THEN nxt
           ELSE processFrom_StopAtFailure(nxt, chain, events, extrinsics, blockHeight,
                                          k + 1, last)

\* The loop of processXdmEvents from its k-th record to its last-th record.
RECURSIVE processFrom(_, _, _, _, _, _, _)
processFrom(st, chain, events, extrinsics, blockHeight, k, last) ==
  IF k > last THEN st
  ELSE processFrom(processRecord(st, chain, events[k], extrinsics, blockHeight),
                   chain, events, extrinsics, blockHeight, k + 1, last)

processXdmEvents(st, chain, events, extrinsics, blockHeight) ==
  processFrom(st, chain, events, extrinsics, blockHeight, 1, Len(events))

(***************************************************************************)
(* State.                                                                  *)
(***************************************************************************)
VARIABLES
  source_inits,            \* table source_inits
  destination_successes,   \* table destination_successes
  source_acks,             \* table source_acks
  event_failures,          \* table event_failures
  scan_progress,           \* table scan_progress: chain -> Null or Some(height)
  environment,             \* chain -> Null or the process.env of the chain's capture script
  capture,                 \* chain -> "none", "load", "main", "scan" or "exit"
  apiCalls,                \* history: chain -> getApi has been called
  opts,                    \* chain -> Null (no capture process) or RunScanOptions
  resumeFrom,              \* chain -> the cursor the current run found: Null or Some(height)
  scanStart,               \* chain -> first height of the current run
  processedFlags,          \* chain -> [0 .. totalWork-1 -> BOOLEAN]
  nextToCommit,            \* chain -> commit cursor of the current run
  h,                       \* chain -> worker -> height the worker is at
  backoff,                 \* chain -> worker -> delay of the next retry sleep
  pc,                      \* chain -> worker -> "fetch", "sleep", "done" or "failed"
  slept,                   \* history: chain -> worker -> delays slept at the current height,
                           \*   up to the first one that reaches the cap
  storeFaults,             \* history: chain -> heights at which a store write threw in this run
  handled,                 \* history: chain -> worker -> heights it processed in this run
  wrote,                   \* history: chain -> this run has written scan_progress
  commits,                 \* history: chain -> the heights this run has passed to
                           \*   setLastProcessedBlockHeight, in the order of the calls
  restarts,                \* history: number of restarts so far
  output,                  \* direction -> records of the last correlator run
  lastOp,                  \* history: the last store operation and its argument
  repeated,                \* history: the last operation repeated the one before it
  written,                 \* history: chain -> heights ever passed to setLastProcessedBlockHeight
  latest,                  \* history: table -> the row of the last committed upsert of each key
  export,                  \* the running page writer of the export script, or NoExport
  ops                      \* history: number of store operations so far

tables == <<source_inits, destination_successes, source_acks>>

storeVars == <<source_inits, destination_successes, source_acks, event_failures,
               scan_progress>>

captureVars == <<environment, capture, apiCalls>>

scanVars == <<captureVars, opts, resumeFrom, scanStart, processedFlags, nextToCommit, h, backoff, pc, slept,
              storeFaults, handled, wrote, commits, restarts>>

opVars == <<output, lastOp, repeated, written, latest, ops>>

exportVars == <<export>>

vars == <<storeVars, scanVars, opVars, exportVars>>

(***************************************************************************)
(* Block Scanner (scan-runner.ts).                                         *)
(***************************************************************************)
RETRY_BACKOFF_MS == 1

RETRY_MAX_BACKOFF_MS == 2

Min2(a, b) == IF a <= b THEN a ELSE b

\* Mutant: Math.max(start, (resumeFrom ?? start) + 1).
ScanStartOf_PlusOne(start, resume) ==
  Max2(start, (IF resume = Null THEN start ELSE resume[1]) + 1)

\* const scanStart = Math.max(start, resumeFrom ?? start)
ScanStartOf(start, resume) ==
  Max2(start, IF resume = Null THEN start ELSE resume[1])

\* const totalWork = Math.max(end - scanStart + 1, 0)
totalWork(sStart, end) == Max2(end - sStart + 1, 0)

Workers(c) == IF opts[c] = Null THEN {} ELSE 0 .. (opts[c].blockConcurrency - 1)

\* Mutant: the cursor jumps to the highest height marked done, whether or
\* not the heights below it are done.
advanceCommit_HighestDone(flags, ntc, sStart, end, P, chain) ==
  LET done == {i \in DOMAIN flags : flags[i]}
      top == CHOOSE i \in done : \A j \in done : j <= i
  IN  IF done = {} THEN [nextToCommit |-> ntc, scan_progress |-> P, heights |-> << >>]
      ELSE [nextToCommit |-> sStart + top + 1,
            scan_progress |-> setLastProcessedBlockHeight(P, chain, sStart + top),
            heights |-> <<sStart + top>>]

\* The loop of advanceCommit from cursor ntc, stopped after at most `limit`
\* iterations: the cursor it reaches, the scan_progress table after the
\* writes it makes on the way, and the heights it writes, in order.
RECURSIVE advanceSteps(_, _, _, _, _, _, _)
advanceSteps(flags, ntc, sStart, end, P, chain, limit) ==
  IF limit > 0 /\ ntc <= end /\ flags[ntc - sStart]
  THEN LET rest == advanceSteps(flags, ntc + 1, sStart, end,
                                setLastProcessedBlockHeight(P, chain, ntc), chain, limit - 1)
       IN  [rest EXCEPT !.heights = <<ntc>> \o @]
  ELSE [nextToCommit |-> ntc, scan_progress |-> P, heights |-> << >>]

\* Mutant: if instead of while, one height per call.
advanceCommit_OneStep(flags, ntc, sStart, end, P, chain) ==
  advanceSteps(flags, ntc, sStart, end, P, chain, 1)

\* Mutant: nextToCommit is a local of advanceCommit, set to scanStart at
\* every call.
advanceCommit_FromScanStart(flags, ntc, sStart, end, P, chain) ==
  advanceSteps(flags, sStart, sStart, end, P, chain, totalWork(sStart, end))

\* advanceCommit: the loop runs until the cursor meets an unset flag or
\* passes end.
advanceCommit(flags, ntc, sStart, end, P, chain) ==
  advanceSteps(flags, ntc, sStart, end, P, chain, totalWork(sStart, end))

\* Mutant: h += 1.
NextHeight_StepOne(height, blockConcurrency) == height + 1

\* for (let h = scanStart + workerId; ...; h += blockConcurrency)
FirstHeight(sStart, workerId) == sStart + workerId

NextHeight(height, blockConcurrency) == height + blockConcurrency

\* backoff = Math.min(backoff * 2, retryMaxBackoffMs)
NextBackoff(b, retryMaxBackoffMs) == Min2(b * 2, retryMaxBackoffMs)

\* Mutant: the backoff is declared outside the loop over heights and keeps
\* the value the previous height left.
FreshBackoff_Carry(retryBackoffMs, b) == b

\* let backoff = retryBackoffMs, at the start of every height; b is the
\* backoff the previous height left.
FreshBackoff(retryBackoffMs, b) == retryBackoffMs

\* Mutant: the catch block rethrows, which ends the worker.
catchBlock_Rethrow(height, b) == [pc |-> "failed", h |-> height, delay |-> b]

\* The catch block of the attempt at `height`: the fault is logged and the
\* worker sleeps `backoff`, staying inside while (true) at the same height.
catchBlock(height, b) == [pc |-> "sleep", h |-> height, delay |-> b]

\* The state of a run of runScan(o) on chain c right after its set-up, given
\* the scan_progress table P it finds.
StartRun(c, o, P) ==
  LET sStart == ScanStartOf(o.start, getLastProcessedBlockHeight(P, c))
      W == 0 .. (o.blockConcurrency - 1)
  IN  /\ resumeFrom' = [resumeFrom EXCEPT ![c] = getLastProcessedBlockHeight(P, c)]
      /\ scanStart' = [scanStart EXCEPT ![c] = sStart]
      /\ processedFlags' = [processedFlags EXCEPT
                              ![c] = [i \in 0 .. (totalWork(sStart, o.end) - 1) |-> FALSE]]
      /\ nextToCommit' = [nextToCommit EXCEPT ![c] = sStart]
      /\ h' = [h EXCEPT ![c] = [w \in W |-> FirstHeight(sStart, w)]]
      /\ backoff' = [backoff EXCEPT ![c] = [w \in W |-> o.retryBackoffMs]]
      /\ pc' = [pc EXCEPT ![c] = [w \in W |->
                  IF FirstHeight(sStart, w) <= o.end THEN "fetch" ELSE "done"]]
      /\ slept' = [slept EXCEPT ![c] = [w \in W |-> << >>]]
      /\ storeFaults' = [storeFaults EXCEPT ![c] = {}]
      /\ handled' = [handled EXCEPT ![c] = [w \in W |-> {}]]
      /\ wrote' = [wrote EXCEPT ![c] = FALSE]
      /\ commits' = [commits EXCEPT ![c] = << >>]

\* The end of a successful attempt of worker w at its height, st being the
\* store processXdmEvents left: the flag is set, the cursor advances, and the
\* worker moves to its next height with a fresh backoff.
CompleteAttempt(c, w, st) ==
  LET height == h[c][w]
      flags == [processedFlags[c] EXCEPT ![height - scanStart[c]] = TRUE]
      adv == advanceCommit(flags, nextToCommit[c], scanStart[c], opts[c].end,
                           scan_progress, c)
      nh == NextHeight(height, opts[c].blockConcurrency)
  IN  /\ source_inits' = st.inits
      /\ destination_successes' = st.succs
      /\ source_acks' = st.acks
      /\ event_failures' = st.failures
      /\ processedFlags' = [processedFlags EXCEPT ![c] = flags]
      /\ nextToCommit' = [nextToCommit EXCEPT ![c] = adv.nextToCommit]
      /\ scan_progress' = adv.scan_progress
      /\ wrote' = [wrote EXCEPT ![c] = @ \/ adv.nextToCommit > nextToCommit[c]]
      /\ commits' = [commits EXCEPT ![c] = @ \o adv.heights]
      /\ handled' = [handled EXCEPT ![c][w] = @ \cup {height}]
      /\ h' = [h EXCEPT ![c][w] = nh]
      /\ backoff' = [backoff EXCEPT ![c][w] = FreshBackoff(opts[c].retryBackoffMs, @)]
      /\ slept' = [slept EXCEPT ![c][w] = << >>]
      /\ pc' = [pc EXCEPT ![c][w] = IF nh <= opts[c].end THEN "fetch" ELSE "done"]

\* The state of the four tables as one record.
StoreNow == [inits |-> source_inits, succs |-> destination_successes,
             acks |-> source_acks, failures |-> event_failures]

\* Mutant: a worker processes its height only when every lower height is
\* marked done (the heights are taken in order).
FetchOk_InOrder(c, w) ==
  /\ opts[c] # Null /\ w \in Workers(c) /\ pc[c][w] = "fetch"
  /\ h[c][w] = nextToCommit[c]
  /\ CompleteAttempt(c, w, processXdmEvents(StoreNow, c, BlockEvents(c, h[c][w]),
                                            BlockExtrinsics(c, h[c][w]), h[c][w]))
  /\ UNCHANGED <<exportVars, captureVars, opts, resumeFrom, scanStart, storeFaults, restarts, opVars>>

\* The try block of worker w at height h succeeds: the three chain calls
\* return, the events are extracted, the flag is set and the cursor advances.
FetchOk(c, w) ==
  /\ opts[c] # Null /\ w \in Workers(c) /\ pc[c][w] = "fetch"
  /\ CompleteAttempt(c, w, processXdmEvents(StoreNow, c, BlockEvents(c, h[c][w]),
                                            BlockExtrinsics(c, h[c][w]), h[c][w]))
  /\ UNCHANGED <<exportVars, captureVars, opts, resumeFrom, scanStart, storeFaults, restarts, opVars>>

\* The worker enters its catch block with the store as it is.
Catch(c, w) ==
  LET cb == catchBlock(h[c][w], backoff[c][w])
  IN  /\ pc' = [pc EXCEPT ![c][w] = cb.pc]
      /\ h' = [h EXCEPT ![c][w] = cb.h]
      /\ slept' = [slept EXCEPT ![c][w] =
                      IF @ = << >> \/ @[Len(@)] < opts[c].retryMaxBackoffMs
                      THEN Append(@, cb.delay) ELSE @]

\* A chain call of worker w throws (a transient fault): the worker logs and
\* starts sleeping for `backoff`.
FetchFail(c, w) ==
  /\ opts[c] # Null /\ w \in Workers(c) /\ pc[c][w] = "fetch"
  /\ Catch(c, w)
  /\ UNCHANGED <<exportVars, storeVars, captureVars, opts, resumeFrom, scanStart, processedFlags, nextToCommit,
                 backoff, storeFaults, handled, wrote, commits, restarts, opVars>>

\* The sleep ends: the backoff doubles up to the cap and the same height is
\* tried again.
Wake(c, w) ==
  /\ opts[c] # Null /\ w \in Workers(c) /\ pc[c][w] = "sleep"
  /\ backoff' = [backoff EXCEPT ![c][w] = NextBackoff(@, opts[c].retryMaxBackoffMs)]
  /\ pc' = [pc EXCEPT ![c][w] = "fetch"]
  /\ UNCHANGED <<exportVars, storeVars, captureVars, opts, resumeFrom, scanStart, processedFlags, nextToCommit, h,
                 slept, storeFaults, handled, wrote, commits, restarts, opVars>>

\* The capture process of chain c is terminated from outside at any point
\* and started again with the same options: runScan reads the cursor from
\* the store and sets up a new run.
Restart(c) ==
  /\ opts[c] # Null /\ restarts < MaxRestarts
  /\ restarts' = restarts + 1
  /\ StartRun(c, opts[c], scan_progress)
  /\ UNCHANGED <<exportVars, storeVars, captureVars, opts, opVars>>

\* The capture process of chain c is terminated while worker w is inside its
\* try block, after k of the block's records were handled and, when all of
\* them were, after j iterations of advanceCommit; it is then started again.
\* What was written to the store stays; the flags and the cursor variable of
\* the killed run are gone.
KilledInTry(c, w, k, j) ==
  /\ opts[c] # Null /\ w \in Workers(c) /\ pc[c][w] = "fetch"
  /\ restarts < MaxRestarts
  /\ LET height == h[c][w]
         events == BlockEvents(c, height)
         st == processFrom(StoreNow, c, events, BlockExtrinsics(c, height), height, 1, k)
         flags == [processedFlags[c] EXCEPT ![height - scanStart[c]] = TRUE]
         full == advanceCommit(flags, nextToCommit[c], scanStart[c], opts[c].end,
                               scan_progress, c)
         adv == advanceSteps(flags, nextToCommit[c], scanStart[c], opts[c].end,
                             scan_progress, c, j)
     IN  /\ k \in 1 .. Len(events)
         /\ j \in 0 .. (IF k = Len(events) THEN full.nextToCommit - nextToCommit[c] ELSE 0)
         /\ source_inits' = st.inits
         /\ destination_successes' = st.succs
         /\ source_acks' = st.acks
         /\ event_failures' = st.failures
         /\ scan_progress' = adv.scan_progress
         /\ StartRun(c, opts[c], adv.scan_progress)
  /\ restarts' = restarts + 1
  /\ UNCHANGED <<exportVars, captureVars, opts, opVars>>

\* The capture processes that run are past their start-up: runScan has been
\* called with opts and has called getApi.
Started ==
  /\ environment = [c \in Chains |-> Null]
  /\ capture = [c \in Chains |-> IF opts[c] = Null THEN "none" ELSE "scan"]
  /\ apiCalls = [c \in Chains |-> opts[c] # Null]

\* Options of a capture process: a range [start, end] and a worker count.
RunScanOptions ==
  [start : 1 .. 2, end : (MaxEnd - 1) .. MaxEnd, blockConcurrency : 1 .. MaxWorkers,
   retryBackoffMs : {RETRY_BACKOFF_MS}, retryMaxBackoffMs : {RETRY_MAX_BACKOFF_MS}]

\* One chain's capture process is started.
ScanConfigs ==
  {o \in [Chains -> RunScanOptions \cup {Null}] :
     \E c \in Chains : o[c] # Null /\ o[OtherChain(c)] = Null}

Op(kind, row, chain, height, env) ==
  [kind |-> kind, row |-> row, chain |-> chain, height |-> height, env |-> env]

NoOp == Op("none", Null, "", 0, "")

\* No page writer of the export script is running.
NoExport == [fn |-> "none"]

OpInit ==
  /\ output = [dir \in Directions |-> EmptyBag]
  /\ lastOp = NoOp
  /\ repeated = FALSE
  /\ written = [c \in Chains |-> {}]
  /\ latest = [inits |-> {}, succs |-> {}, acks |-> {}]
  /\ ops = 0

StoreInit ==
  /\ source_inits = EmptyBag
  /\ destination_successes = EmptyBag
  /\ source_acks = EmptyBag
  /\ event_failures = EmptyBag
  /\ scan_progress = [c \in Chains |-> Null]

\* A fresh store, and every started capture process right after its set-up.
Init ==
  /\ StoreInit
  /\ OpInit
  /\ export = NoExport
  /\ opts \in ScanConfigs
  /\ Started
  /\ resumeFrom = [c \in Chains |-> Null]
  /\ scanStart = [c \in Chains |->
        IF opts[c] = Null THEN 0 ELSE ScanStartOf(opts[c].start, resumeFrom[c])]
  /\ processedFlags = [c \in Chains |->
        IF opts[c] = Null THEN << >>
        ELSE [i \in 0 .. (totalWork(scanStart[c], opts[c].end) - 1) |-> FALSE]]
  /\ nextToCommit = scanStart
  /\ h = [c \in Chains |-> [w \in Workers(c) |-> FirstHeight(scanStart[c], w)]]
  /\ backoff = [c \in Chains |-> [w \in Workers(c) |-> opts[c].retryBackoffMs]]
  /\ pc = [c \in Chains |-> [w \in Workers(c) |->
             IF FirstHeight(scanStart[c], w) <= opts[c].end THEN "fetch" ELSE "done"]]
  /\ slept = [c \in Chains |-> [w \in Workers(c) |-> << >>]]
  /\ storeFaults = [c \in Chains |-> {}]
  /\ handled = [c \in Chains |-> [w \in Workers(c) |-> {}]]
  /\ wrote = [c \in Chains |-> FALSE]
  /\ commits = [c \in Chains |-> << >>]
  /\ restarts = 0

Next ==
  \E c \in Chains :
    \/ \E w \in Workers(c) : FetchOk(c, w)
    \/ \E w \in Workers(c) : FetchFail(c, w)
    \/ \E w \in Workers(c) : Wake(c, w)
    \/ Restart(c)
    \/ \E w \in Workers(c) :
         \E k \in 1 .. Len(BlockEvents(c, h[c][w])),
            j \in 0 .. totalWork(scanStart[c], opts[c].end) : KilledInTry(c, w, k, j)

Spec == Init /\ [][Next]_vars

\* Scheduling: a sleeping worker wakes up (setTimeout fires), and the attempt
\* of a worker that keeps trying a height succeeds at some point (every
\* transient fault clears).
Fairness ==
  \A w \in 0 .. (MaxWorkers - 1) :
     WF_vars(Wake("domain", w)) /\ SF_vars(FetchOk("domain", w))

\* The steps of the workers of a run that is not terminated from outside.
LiveNext ==
  \/ \E c \in Chains : \E w \in Workers(c) : FetchOk(c, w)
  \/ \E c \in Chains : \E w \in Workers(c) : FetchFail(c, w)
  \/ \E c \in Chains : \E w \in Workers(c) : Wake(c, w)

\* A fresh store and the domain capture process.
LiveInit == Init /\ opts["domain"] # Null

LiveSpec == LiveInit /\ [][LiveNext]_vars /\ Fairness

(***************************************************************************)
(* The scanner with store I/O faults: a call of the store throws.          *)
(***************************************************************************)
\* Handling rec calls an upsert.
Upserts(rec, extrinsics) ==
  /\ IsOTI(rec) \/ IsITS(rec) \/ IsOMR(rec)
  /\ rec.decodable
  /\ IsOTI(rec) => /\ ~outOfRange(extrinsicIndexOf(rec), extrinsics)
                   /\ signerOf(extrinsicAt(extrinsics, extrinsicIndexOf(rec))) # ""

\* Handling rec calls insertEventFailure.
RecordsFailure(rec, extrinsics) ==
  /\ IsOTI(rec) \/ IsITS(rec) \/ IsOMR(rec)
  /\ ~Upserts(rec, extrinsics)

\* The upsert for the k-th record of the block of worker w throws.  The throw
\* is inside the try block of the loop over the records: its catch records an
\* EventFailure `unexpected_error` and the loop continues; processXdmEvents
\* returns and the attempt completes.
UpsertFault(c, w, k) ==
  /\ opts[c] # Null /\ w \in Workers(c) /\ pc[c][w] = "fetch"
  /\ h[c][w] \notin storeFaults[c]
  /\ LET height == h[c][w]
         events == BlockEvents(c, height)
         extrinsics == BlockExtrinsics(c, height)
     IN  /\ k \in 1 .. Len(events)
         /\ Upserts(events[k], extrinsics)
         /\ CompleteAttempt(c, w,
              processFrom(
                recordFailure(processFrom(StoreNow, c, events, extrinsics, height, 1, k - 1),
                              c, events[k], height, "unexpected_error"),
                c, events, extrinsics, height, k + 1, Len(events)))
         /\ storeFaults' = [storeFaults EXCEPT ![c] = @ \cup {height}]
  /\ UNCHANGED <<exportVars, captureVars, opts, resumeFrom, scanStart, restarts, opVars>>

\* insertEventFailure for the k-th record throws, also when the catch of the
\* loop calls it: the throw leaves processXdmEvents and reaches the catch
\* block of the worker, which sleeps and tries the height again.
EventFailureFault(c, w, k) ==
  /\ opts[c] # Null /\ w \in Workers(c) /\ pc[c][w] = "fetch"
  /\ h[c][w] \notin storeFaults[c]
  /\ LET height == h[c][w]
         events == BlockEvents(c, height)
         extrinsics == BlockExtrinsics(c, height)
         st == processFrom(StoreNow, c, events, extrinsics, height, 1, k - 1)
     IN  /\ k \in 1 .. Len(events)
         /\ RecordsFailure(events[k], extrinsics)
         /\ source_inits' = st.inits
         /\ destination_successes' = st.succs
         /\ source_acks' = st.acks
         /\ event_failures' = st.failures
         /\ storeFaults' = [storeFaults EXCEPT ![c] = @ \cup {height}]
  /\ Catch(c, w)
  /\ UNCHANGED <<exportVars, scan_progress, captureVars, opts, resumeFrom, scanStart, processedFlags, nextToCommit,
                 backoff, handled, wrote, commits, restarts, opVars>>

\* setLastProcessedBlockHeight throws in advanceCommit after j writes: the
\* block is extracted and its flag is set, the cursor has advanced j heights;
\* the throw reaches the catch block of the worker, which sleeps and tries
\* the height again.
ScanProgressFault(c, w, j) ==
  /\ opts[c] # Null /\ w \in Workers(c) /\ pc[c][w] = "fetch"
  /\ h[c][w] \notin storeFaults[c]
  /\ LET height == h[c][w]
         st == processXdmEvents(StoreNow, c, BlockEvents(c, height),
                                BlockExtrinsics(c, height), height)
         flags == [processedFlags[c] EXCEPT ![height - scanStart[c]] = TRUE]
         full == advanceCommit(flags, nextToCommit[c], scanStart[c], opts[c].end,
                               scan_progress, c)
         adv == advanceSteps(flags, nextToCommit[c], scanStart[c], opts[c].end,
                             scan_progress, c, j)
     IN  /\ j \in 0 .. (full.nextToCommit - nextToCommit[c] - 1)
         /\ source_inits' = st.inits
         /\ destination_successes' = st.succs
         /\ source_acks' = st.acks
         /\ event_failures' = st.failures
         /\ processedFlags' = [processedFlags EXCEPT ![c] = flags]
         /\ nextToCommit' = [nextToCommit EXCEPT ![c] = adv.nextToCommit]
         /\ scan_progress' = adv.scan_progress
         /\ wrote' = [wrote EXCEPT ![c] = @ \/ j > 0]
         /\ commits' = [commits EXCEPT ![c] = @ \o adv.heights]
         /\ storeFaults' = [storeFaults EXCEPT ![c] = @ \cup {height}]
  /\ Catch(c, w)
  /\ UNCHANGED <<exportVars, captureVars, opts, resumeFrom, scanStart, backoff, handled, restarts, opVars>>

\* A fresh store and one capture process over a range from height 1.
FaultInit == Init /\ \A c \in Chains : opts[c] # Null => opts[c].start = 1

\* The steps of the workers, and those in which a store call throws for the
\* first time at a height.
FaultNext ==
  \/ \E c \in Chains : \E w \in Workers(c) : FetchOk(c, w)
  \/ \E c \in Chains : \E w \in Workers(c) : FetchFail(c, w)
  \/ \E c \in Chains : \E w \in Workers(c) : Wake(c, w)
  \/ \E c \in Chains : \E w \in Workers(c) :
        \E k \in 1 .. Len(BlockEvents(c, h[c][w])) : UpsertFault(c, w, k)
  \/ \E c \in Chains : \E w \in Workers(c) :
        \E k \in 1 .. Len(BlockEvents(c, h[c][w])) : EventFailureFault(c, w, k)
  \/ \E c \in Chains : \E w \in Workers(c) :
        \E j \in 0 .. totalWork(scanStart[c], opts[c].end) : ScanProgressFault(c, w, j)

FaultSpec == FaultInit /\ [][FaultNext]_vars

(***************************************************************************)
(* The scanner under any retry configuration: base and cap are whatever    *)
(* RPC_BACKOFF_MS and RPC_MAX_BACKOFF_MS say.                              *)
(***************************************************************************)
RetryOptions ==
  [start : {1}, end : {3}, blockConcurrency : 1 .. MaxWorkers,
   retryBackoffMs : 1 .. MaxBackoffMs, retryMaxBackoffMs : 1 .. MaxBackoffMs]

RetryInit ==
  /\ StoreInit
  /\ OpInit
  /\ export = NoExport
  /\ \E o \in RetryOptions : opts = [c \in Chains |-> IF c = "domain" THEN o ELSE Null]
  /\ Started
  /\ resumeFrom = [c \in Chains |-> Null]
  /\ scanStart = [c \in Chains |->
        IF opts[c] = Null THEN 0 ELSE ScanStartOf(opts[c].start, resumeFrom[c])]
  /\ processedFlags = [c \in Chains |->
        IF opts[c] = Null THEN << >>
        ELSE [i \in 0 .. (totalWork(scanStart[c], opts[c].end) - 1) |-> FALSE]]
  /\ nextToCommit = scanStart
  /\ h = [c \in Chains |-> [w \in Workers(c) |-> FirstHeight(scanStart[c], w)]]
  /\ backoff = [c \in Chains |-> [w \in Workers(c) |-> opts[c].retryBackoffMs]]
  /\ pc = [c \in Chains |-> [w \in Workers(c) |->
             IF FirstHeight(scanStart[c], w) <= opts[c].end THEN "fetch" ELSE "done"]]
  /\ slept = [c \in Chains |-> [w \in Workers(c) |-> << >>]]
  /\ storeFaults = [c \in Chains |-> {}]
  /\ handled = [c \in Chains |-> [w \in Workers(c) |-> {}]]
  /\ wrote = [c \in Chains |-> FALSE]
  /\ commits = [c \in Chains |-> << >>]
  /\ restarts = 0

RetryNext ==
  \/ \E c \in Chains : \E w \in Workers(c) : FetchOk(c, w)
  \/ \E c \in Chains : \E w \in Workers(c) : FetchFail(c, w)
  \/ \E c \in Chains : \E w \in Workers(c) : Wake(c, w)

RetrySpec == RetryInit /\ [][RetryNext]_vars

(***************************************************************************)
(* The Event Store and the Correlator on their own: any sequence of        *)
(* upserts and cursor writes, with correlator runs in between.             *)
(***************************************************************************)
ProgressHeights == 1 .. 3

Record(op) ==
  /\ lastOp' = op
  /\ repeated' = (op.kind = lastOp.kind /\ op = lastOp)
  /\ ops' = ops + 1

UpsertSourceInit(row) ==
  /\ ops < MaxOps
  /\ source_inits' = upsertSourceInit(source_inits, row)
  /\ Record(Op("upsertSourceInit", Some(row), "", 0, ""))
  /\ latest' = [latest EXCEPT
                  !.inits = {x \in @ : SourceInitKey(x) # SourceInitKey(row)} \cup {row}]
  /\ UNCHANGED <<exportVars, destination_successes, source_acks, event_failures, scan_progress,
                 scanVars, output, written>>

UpsertDestinationSuccess(row) ==
  /\ ops < MaxOps
  /\ destination_successes' = upsertDestinationSuccess(destination_successes, row)
  /\ Record(Op("upsertDestinationSuccess", Some(row), "", 0, ""))
  /\ latest' = [latest EXCEPT
                  !.succs = {x \in @ : DestinationSuccessKey(x) # DestinationSuccessKey(row)}
                              \cup {row}]
  /\ UNCHANGED <<exportVars, source_inits, source_acks, event_failures, scan_progress,
                 scanVars, output, written>>

UpsertSourceAck(row) ==
  /\ ops < MaxOps
  /\ source_acks' = upsertSourceAck(source_acks, row)
  /\ Record(Op("upsertSourceAck", Some(row), "", 0, ""))
  /\ latest' = [latest EXCEPT
                  !.acks = {x \in @ : SourceAckKey(x) # SourceAckKey(row)} \cup {row}]
  /\ UNCHANGED <<exportVars, source_inits, destination_successes, event_failures, scan_progress,
                 scanVars, output, written>>

SetLastProcessedBlockHeight(chain, height) ==
  /\ ops < MaxOps
  /\ scan_progress' = setLastProcessedBlockHeight(scan_progress, chain, height)
  /\ written' = [written EXCEPT ![chain] = @ \cup {height}]
  /\ Record(Op("setLastProcessedBlockHeight", Null, chain, height, ""))
  /\ UNCHANGED <<exportVars, source_inits, destination_successes, source_acks, event_failures,
                 scanVars, output, latest>>

\* Mutant: DROP TABLE before CREATE TABLE.
ensureTables_DropCreate(st) ==
  [inits |-> EmptyBag, succs |-> EmptyBag, acks |-> EmptyBag,
   progress |-> [c \in Chains |-> Null]]

\* ensureTables: CREATE TABLE IF NOT EXISTS and CREATE INDEX IF NOT EXISTS;
\* a table that exists keeps its rows.
ensureTables(st) == st

\* Mutant: the file is opened with flag 'a'.
writeNdjson_Append(file, rows) == file (+) rows

\* writeNdjson: fs.openSync(filePath, 'w') truncates the file, then one
\* line per row is written.
writeNdjson(file, rows) == rows

\* One run of the correlator with ACK_MODE set to env in its environment:
\* buildIterator opens the store and reads it, writeNdjson writes the file
\* of each direction.
Match(env) ==
  /\ LET st == ensureTables([inits |-> source_inits, succs |-> destination_successes,
                             acks |-> source_acks, progress |-> scan_progress])
         rows == matchMain(env, st.inits, st.succs, st.acks)
     IN  /\ source_inits' = st.inits
         /\ destination_successes' = st.succs
         /\ source_acks' = st.acks
         /\ scan_progress' = st.progress
         /\ output' = [dir \in Directions |-> writeNdjson(output[dir], rows[dir])]
  /\ lastOp' = Op("match", Null, "", 0, env)
  /\ repeated' = (lastOp = Op("match", Null, "", 0, env))
  /\ UNCHANGED <<exportVars, event_failures, scanVars, written, latest, ops>>

\* No capture process runs.
StoreSpecInit ==
  /\ StoreInit
  /\ OpInit
  /\ export = NoExport
  /\ opts = [c \in Chains |-> Null]
  /\ Started
  /\ resumeFrom = [c \in Chains |-> Null]
  /\ scanStart = [c \in Chains |-> 0]
  /\ processedFlags = [c \in Chains |-> << >>]
  /\ nextToCommit = [c \in Chains |-> 0]
  /\ h = [c \in Chains |-> << >>]
  /\ backoff = [c \in Chains |-> << >>]
  /\ pc = [c \in Chains |-> << >>]
  /\ slept = [c \in Chains |-> << >>]
  /\ storeFaults = [c \in Chains |-> {}]
  /\ handled = [c \in Chains |-> << >>]
  /\ wrote = [c \in Chains |-> FALSE]
  /\ commits = [c \in Chains |-> << >>]
  /\ restarts = 0

StoreNext ==
  \/ \E row \in SourceInitRows : UpsertSourceInit(row)
  \/ \E row \in DestinationSuccessRows : UpsertDestinationSuccess(row)
  \/ \E row \in SourceAckRows : UpsertSourceAck(row)
  \/ \E chain \in Chains, height \in ProgressHeights :
        SetLastProcessedBlockHeight(chain, height)
  \/ \E env \in EnvAckModes : Match(env)

StoreSpec == StoreSpecInit /\ [][StoreNext]_vars

(***************************************************************************)
(* The capture scripts (capture-domain.ts, capture-consensus.ts) from the  *)
(* start of the process, under any environment.                            *)
(***************************************************************************)
\* Values of an environment variable: Null is the unset variable.
UrlValues == {Null, Some(""), Some("ws://a"), Some("ws://a,ws://b")}

StartValues == {Null, Some(""), Some("0"), Some("1"), Some("x")}

EndValues == {Null, Some("0"), Some("2")}

Environments ==
  [url : UrlValues, start : StartValues, end : EndValues, blockConcurrency : 1 .. MaxWorkers]

\* Number(v): NaN (Null here) for undefined and for a string that is not a
\* numeral, 0 for the empty string.
ToNumber(v) ==
  IF v = Null THEN Null
  ELSE CASE v[1] = "" -> Some(0)
         [] v[1] = "0" -> Some(0)
         [] v[1] = "1" -> Some(1)
         [] v[1] = "2" -> Some(2)
         [] OTHER -> Null

\* !x for a number x: true for NaN and for 0.
Not(x) == x = Null \/ x[1] = 0

\* url.split(','): an array, of one empty string for the empty string.
Split(url) ==
  CASE url = "" -> <<"">>
    [] url = "ws://a" -> <<"ws://a">>
    [] url = "ws://a,ws://b" -> <<"ws://a", "ws://b">>

\* The module level of the script: DOMAIN_RPC_URL.split(',') throws a
\* TypeError when the variable is unset, which ends the process.
Load(c) ==
  /\ capture[c] = "load"
  /\ capture' = [capture EXCEPT ![c] = IF environment[c].url = Null THEN "exit" ELSE "main"]
  /\ UNCHANGED <<exportVars, storeVars, environment, apiCalls, opts, resumeFrom, scanStart, processedFlags,
                 nextToCommit, h, backoff, pc, slept, storeFaults, handled, wrote, commits,
                 restarts, opVars>>

\* main: the check of the required values throws, and main().catch exits
\* with code 1; else runScan is called, which calls getApi, opens the store
\* and sets up the run.
Main(c) ==
  /\ capture[c] = "main"
  /\ LET rpcEndpoints == Split(environment[c].url[1])
         START == ToNumber(environment[c].start)
         END == ToNumber(environment[c].end)
     IN  IF Not(START) \/ Not(END)
         THEN /\ capture' = [capture EXCEPT ![c] = "exit"]
              /\ UNCHANGED <<apiCalls, opts, resumeFrom, scanStart, processedFlags,
                             nextToCommit, h, backoff, pc, slept, storeFaults, handled, wrote,
                             commits>>
         ELSE LET o == [start |-> START[1], end |-> END[1],
                        blockConcurrency |-> environment[c].blockConcurrency,
                        retryBackoffMs |-> RETRY_BACKOFF_MS,
                        retryMaxBackoffMs |-> RETRY_MAX_BACKOFF_MS]
              IN  /\ capture' = [capture EXCEPT ![c] = "scan"]
                  /\ apiCalls' = [apiCalls EXCEPT ![c] = TRUE]
                  /\ opts' = [opts EXCEPT ![c] = o]
                  /\ StartRun(c, o, scan_progress)
  /\ UNCHANGED <<exportVars, storeVars, environment, restarts, opVars>>

\* A fresh store and the capture script of one chain about to be loaded.
CaptureInit ==
  /\ StoreInit
  /\ OpInit
  /\ export = NoExport
  /\ \E c \in Chains, e \in Environments :
        /\ environment = [d \in Chains |-> IF d = c THEN e ELSE Null]
        /\ capture = [d \in Chains |-> IF d = c THEN "load" ELSE "none"]
  /\ apiCalls = [c \in Chains |-> FALSE]
  /\ opts = [c \in Chains |-> Null]
  /\ resumeFrom = [c \in Chains |-> Null]
  /\ scanStart = [c \in Chains |-> 0]
  /\ processedFlags = [c \in Chains |-> << >>]
  /\ nextToCommit = [c \in Chains |-> 0]
  /\ h = [c \in Chains |-> << >>]
  /\ backoff = [c \in Chains |-> << >>]
  /\ pc = [c \in Chains |-> << >>]
  /\ slept = [c \in Chains |-> << >>]
  /\ storeFaults = [c \in Chains |-> {}]
  /\ handled = [c \in Chains |-> << >>]
  /\ wrote = [c \in Chains |-> FALSE]
  /\ commits = [c \in Chains |-> << >>]
  /\ restarts = 0

CaptureNext ==
  \/ \E c \in Chains : Load(c)
  \/ \E c \in Chains : Main(c)
  \/ \E c \in Chains : \E w \in Workers(c) : FetchOk(c, w)
  \/ \E c \in Chains : \E w \in Workers(c) : FetchFail(c, w)
  \/ \E c \in Chains : \E w \in Workers(c) : Wake(c, w)

CaptureSpec == CaptureInit /\ [][CaptureNext]_vars

(***************************************************************************)
(* Both capture processes on the shared store, their workers' steps in any *)
(* order, and the correlator run once both scans are complete.             *)
(***************************************************************************)
PairOptions ==
  [start : {1}, end : 1 .. (MaxEnd - 2), blockConcurrency : 1 .. MaxWorkers,
   retryBackoffMs : {RETRY_BACKOFF_MS}, retryMaxBackoffMs : {RETRY_MAX_BACKOFF_MS}]

PairInit ==
  /\ StoreInit
  /\ OpInit
  /\ export = NoExport
  /\ opts \in [Chains -> PairOptions]
  /\ Started
  /\ resumeFrom = [c \in Chains |-> Null]
  /\ scanStart = [c \in Chains |-> ScanStartOf(opts[c].start, resumeFrom[c])]
  /\ processedFlags = [c \in Chains |->
        [i \in 0 .. (totalWork(scanStart[c], opts[c].end) - 1) |-> FALSE]]
  /\ nextToCommit = scanStart
  /\ h = [c \in Chains |-> [w \in Workers(c) |-> FirstHeight(scanStart[c], w)]]
  /\ backoff = [c \in Chains |-> [w \in Workers(c) |-> opts[c].retryBackoffMs]]
  /\ pc = [c \in Chains |-> [w \in Workers(c) |->
             IF FirstHeight(scanStart[c], w) <= opts[c].end THEN "fetch" ELSE "done"]]
  /\ slept = [c \in Chains |-> [w \in Workers(c) |-> << >>]]
  /\ storeFaults = [c \in Chains |-> {}]
  /\ handled = [c \in Chains |-> [w \in Workers(c) |-> {}]]
  /\ wrote = [c \in Chains |-> FALSE]
  /\ commits = [c \in Chains |-> << >>]
  /\ restarts = 0

\* The correlator is run when both capture processes have returned.
MatchAfterScans(env) ==
  /\ \A c \in Chains : \A w \in Workers(c) : pc[c][w] = "done"
  /\ Match(env)

PairNext ==
  \/ \E c \in Chains : \E w \in Workers(c) : FetchOk(c, w)
  \/ \E c \in Chains : \E w \in Workers(c) : FetchFail(c, w)
  \/ \E c \in Chains : \E w \in Workers(c) : Wake(c, w)
  \/ \E env \in EnvAckModes : MatchAfterScans(env)

PairSpec == PairInit /\ [][PairNext]_vars

(***************************************************************************)
(* Event extraction on its own: one call of processXdmEvents on any block  *)
(* the Chain Adapter may return, against a store that is empty or already  *)
(* holds a row for a key of the block.                                     *)
(***************************************************************************)
\* Records of a block: initiations with no phase, a negative index, index 0
\* and index 1, an initiation without amount field, an undecodable one; a
\* deposit and an undecodable deposit; an acknowledgment with result Ok and
\* one whose result is neither Ok nor Err; two events of other kinds, one of
\* them in section messenger.
EventUniverse ==
  {OTI("5", Some("100"), ph) : ph \in {Null, Some(0 - 1), Some(0), Some(1)}}
    \cup {OTI("6", Null, Some(0)),
          Ev("transporter", "OutgoingTransferInitiated", "6", Some("100"), "", Some(0), FALSE),
          ITS("5", Some("95"), TRUE), ITS("6", Some("95"), FALSE),
          OMR("5", "Ok"), OMR("6", "Other"), OtherEvent,
          Ev("messenger", "OutboxMessage", "5", Null, "Ok", Null, TRUE)}

\* Extrinsic lists of a block: none; one signed; one unsigned (its signer
\* field holds a default address); one signed whose signer does not resolve;
\* an unsigned one followed by a signed one.
ExtrinsicLists ==
  {<< >>, <<Ext(TRUE, "addrA", Some("90"))>>, <<Ext(FALSE, "addrZ", Null)>>,
   <<Ext(TRUE, "", Null)>>, <<Ext(FALSE, "addrZ", Null), Ext(TRUE, "addrB", Null)>>}

EventLists == UNION {[1 .. n -> EventUniverse] : n \in 1 .. MaxEvents}

\* A row an earlier scan of chain c left for nonce "5".
EarlierSourceInit(c) ==
  [source_chain |-> c, dst_chain_id |-> ChainId(OtherChain(c)), channel_id |-> 1,
   nonce |-> "5", from_address |-> "addrA", amount |-> "95", source_block_height |-> 1,
   source_block_hash |-> BlockHash(c, 1), source_extrinsic_index |-> Some(0)]

\* The worker's call of processXdmEvents with the events and extrinsics it
\* fetched for blockHeight.
ProcessXdmEvents(chain, events, extrinsics, blockHeight) ==
  /\ lastOp.kind = "none"
  /\ LET st == processXdmEvents(StoreNow, chain, events, extrinsics, blockHeight)
     IN  /\ source_inits' = st.inits
         /\ destination_successes' = st.succs
         /\ source_acks' = st.acks
         /\ event_failures' = st.failures
  /\ lastOp' = Op("processXdmEvents", Some([events |-> events, extrinsics |-> extrinsics]),
                  chain, blockHeight, "")
  /\ repeated' = FALSE
  /\ ops' = ops + 1
  /\ UNCHANGED <<exportVars, scan_progress, scanVars, output, written, latest>>

ExtractInit ==
  /\ \E c \in Chains : source_inits \in {EmptyBag, SetToBag({EarlierSourceInit(c)})}
  /\ destination_successes = EmptyBag
  /\ source_acks = EmptyBag
  /\ event_failures = EmptyBag
  /\ scan_progress = [c \in Chains |-> Null]
  /\ OpInit
  /\ export = NoExport
  /\ opts = [c \in Chains |-> Null]
  /\ Started
  /\ resumeFrom = [c \in Chains |-> Null]
  /\ scanStart = [c \in Chains |-> 0]
  /\ processedFlags = [c \in Chains |-> << >>]
  /\ nextToCommit = [c \in Chains |-> 0]
  /\ h = [c \in Chains |-> << >>]
  /\ backoff = [c \in Chains |-> << >>]
  /\ pc = [c \in Chains |-> << >>]
  /\ slept = [c \in Chains |-> << >>]
  /\ storeFaults = [c \in Chains |-> {}]
  /\ handled = [c \in Chains |-> << >>]
  /\ wrote = [c \in Chains |-> FALSE]
  /\ commits = [c \in Chains |-> << >>]
  /\ restarts = 0

ExtractNext ==
  \E chain \in Chains, events \in EventLists, extrinsics \in ExtrinsicLists :
     ProcessXdmEvents(chain, events, extrinsics, 2)

ExtractSpec == ExtractInit /\ [][ExtractNext]_vars

(***************************************************************************)
(* A run on a store an earlier scan has left: the earlier scan covered     *)
(* heights 1 .. p of the chain and persisted the cursor p.                 *)
(***************************************************************************)
\* The store after one uninterrupted pass over heights from .. end of chain c.
RECURSIVE SinglePass(_, _, _, _)
SinglePass(st, c, from, end) ==
  IF from > end THEN st
  ELSE SinglePass(processXdmEvents(st, c, BlockEvents(c, from),
                                   BlockExtrinsics(c, from), from), c, from + 1, end)

RerunOptions ==
  [start : 1 .. 2, end : 1 .. MaxEnd, blockConcurrency : 1 .. MaxWorkers,
   retryBackoffMs : {RETRY_BACKOFF_MS}, retryMaxBackoffMs : {RETRY_MAX_BACKOFF_MS}]

RerunInit ==
  /\ OpInit
  /\ export = NoExport
  /\ \E c \in Chains, o \in RerunOptions, p \in 1 .. MaxEnd :
        LET st == SinglePass(EmptyStore, c, 1, p)
        IN  /\ opts = [d \in Chains |-> IF d = c THEN o ELSE Null]
            /\ source_inits = st.inits
            /\ destination_successes = st.succs
            /\ source_acks = st.acks
            /\ event_failures = st.failures
            /\ scan_progress = [d \in Chains |-> IF d = c THEN Some(p) ELSE Null]
  /\ Started
  /\ resumeFrom = [c \in Chains |-> getLastProcessedBlockHeight(scan_progress, c)]
  /\ scanStart = [c \in Chains |->
        IF opts[c] = Null THEN 0 ELSE ScanStartOf(opts[c].start, resumeFrom[c])]
  /\ processedFlags = [c \in Chains |->
        IF opts[c] = Null THEN << >>
        ELSE [i \in 0 .. (totalWork(scanStart[c], opts[c].end) - 1) |-> FALSE]]
  /\ nextToCommit = scanStart
  /\ h = [c \in Chains |-> [w \in Workers(c) |-> FirstHeight(scanStart[c], w)]]
  /\ backoff = [c \in Chains |-> [w \in Workers(c) |-> opts[c].retryBackoffMs]]
  /\ pc = [c \in Chains |-> [w \in Workers(c) |->
             IF FirstHeight(scanStart[c], w) <= opts[c].end THEN "fetch" ELSE "done"]]
  /\ slept = [c \in Chains |-> [w \in Workers(c) |-> << >>]]
  /\ storeFaults = [c \in Chains |-> {}]
  /\ handled = [c \in Chains |-> [w \in Workers(c) |-> {}]]
  /\ wrote = [c \in Chains |-> FALSE]
  /\ commits = [c \in Chains |-> << >>]
  /\ restarts = 0

RerunSpec == RerunInit /\ [][Next]_vars

(***************************************************************************)
(* Chain Adapter: getEventsAt.  The repository holds two chain modules     *)
(* with the same exports; the scanner imports './chain'.  `getEventsAt`    *)
(* is the typed module, `getEventsAtNodeBased` the one under node-based/.  *)
(***************************************************************************)
SEGMENT_SIZE == 100

EVENTS_MAX_SEGMENTS == 2048

ChainModules == {"chain", "node-based/chain"}

\* Option<Vec<EventRecord>>: None gives no records.
unwrapSegment(seg) == IF seg = Null THEN << >> ELSE seg[1]

\* system.eventSegments.at(hash, i): an index the node does not hold is None.
SegmentAt(node, i) ==
  IF (i + 1) \in DOMAIN node.segments THEN node.segments[i + 1] ELSE Null

\* The records of segments i .. last, pushed in segment order.
RECURSIVE Flatten(_, _, _)
Flatten(node, i, last) ==
  IF i > last THEN << >>
  ELSE unwrapSegment(SegmentAt(node, i)) \o Flatten(node, i + 1, last)

\* Outcome of a call: the records returned, whether the call threw, whether
\* a segment fetch threw inside it and whether system.events was queried.
Outcome(events, threw, failed, legacy) ==
  [events |-> events, threw |-> threw, failed |-> failed, legacy |-> legacy]

\* getEventsAt of the typed chain module: segments 0 .. lastIndex by the
\* event count, all records returned, a failed fetch rethrown.
getEventsAt(node, useSegments) ==
  IF useSegments /\ node.offers
  THEN LET count == IF node.count = Null THEN 0 ELSE node.count[1]
           lastIndex == (count - 1) \div SEGMENT_SIZE
       IN  IF \E i \in 0 .. lastIndex : i \in node.fails
           THEN Outcome(<< >>, TRUE, TRUE, FALSE)
           ELSE Outcome(Flatten(node, 0, lastIndex), FALSE, FALSE, FALSE)
  ELSE Outcome(node.legacy, FALSE, FALSE, TRUE)

\* The key of the deduplication: section|method|data|phase.
KeyOf(rec) ==
  <<rec.section, rec.method,
    <<rec.channel_id, rec.nonce, rec.amount, rec.result, rec.decodable>>, rec.phase>>

\* The deduplication loop from record k on: a record whose key is in `seen`
\* is dropped, any other is pushed and its key added.
RECURSIVE unique(_, _, _)
unique(flattened, k, seen) ==
  IF k > Len(flattened) THEN << >>
  ELSE IF KeyOf(flattened[k]) \in seen THEN unique(flattened, k + 1, seen)
       ELSE <<flattened[k]>> \o unique(flattened, k + 1, seen \cup {KeyOf(flattened[k])})

\* Index of the first segment that unwraps to nothing.
RECURSIVE FirstEmpty(_, _)
FirstEmpty(node, i) ==
  IF unwrapSegment(SegmentAt(node, i)) = << >> THEN i ELSE FirstEmpty(node, i + 1)

\* getEventsAt of node-based/chain.ts: the segments by the event count, or
\* all entries, or a scan up to the first empty segment; a non-empty result
\* is deduplicated; a failure or an empty result falls back to system.events.
getEventsAtNodeBased(node, useSegments) ==
  IF useSegments /\ node.offers
  THEN LET counted == node.count # Null /\ node.count[1] > 0
           numSegments == (node.count[1] + SEGMENT_SIZE - 1) \div SEGMENT_SIZE
           scanLast == Min2(FirstEmpty(node, 0), EVENTS_MAX_SEGMENTS - 1)
           last == IF counted THEN numSegments - 1
                   ELSE IF node.entries THEN Len(node.segments) - 1
                   ELSE scanLast
           failed == IF ~counted /\ node.entries THEN node.fails # {}
                     ELSE \E i \in 0 .. last : i \in node.fails
           flattened == Flatten(node, 0, last)
       IN  IF failed THEN Outcome(node.legacy, FALSE, TRUE, TRUE)
           ELSE IF Len(flattened) > 0 THEN Outcome(unique(flattened, 1, {}), FALSE, FALSE, FALSE)
           ELSE Outcome(node.legacy, FALSE, FALSE, TRUE)
  ELSE Outcome(node.legacy, FALSE, FALSE, TRUE)

\* The module './chain' resolves to decides which function runs.
GetEventsAtOf(module, node, useSegments) ==
  IF module = "chain" THEN getEventsAt(node, useSegments)
  ELSE getEventsAtNodeBased(node, useSegments)

(***************************************************************************)
(* One call of getEventsAt on any answer of the node.                      *)
(***************************************************************************)
MaxSegments == 2

\* Values of one storage entry of system.eventSegments.
SegmentValues ==
  {Null, Some(<<OtherEvent>>), Some(<<OMR("5", "Ok")>>),
   Some(<<OtherEvent, OMR("5", "Ok")>>), Some(<<OMR("5", "Ok"), OtherEvent>>),
   Some(<<OMR("5", "Ok"), OMR("5", "Ok")>>)}

\* What the node holds for one block: whether it has system.eventSegments
\* and entriesAt, its event count (Null: no counter), the segments, the
\* segment indices whose fetch throws and the content of system.events.
NodeViews ==
  [offers : BOOLEAN, entries : BOOLEAN,
   count : {Null, Some(0), Some(1), Some(SEGMENT_SIZE + 1), Some(2 * SEGMENT_SIZE + 1)},
   segments : UNION {[1 .. n -> SegmentValues] : n \in 0 .. MaxSegments},
   fails : {{}, {0}, {1}},
   legacy : {<<OtherEvent, OMR("5", "Ok")>>}]

GetEventsAt(module, node, useSegments) ==
  /\ lastOp.kind = "none"
  /\ lastOp' = Op("getEventsAt",
                  Some([node |-> node, useSegments |-> useSegments,
                        result |-> GetEventsAtOf(module, node, useSegments)]),
                  "", 0, module)
  /\ UNCHANGED <<exportVars, storeVars, scanVars, output, repeated, written, latest, ops>>

AdapterInit == ExtractInit /\ source_inits = EmptyBag

AdapterNext ==
  \E module \in ChainModules, node \in NodeViews, useSegments \in BOOLEAN :
     GetEventsAt(module, node, useSegments)

AdapterSpec == AdapterInit /\ [][AdapterNext]_vars

(***************************************************************************)
(* The scanner when a segment fetch of the domain chain throws.            *)
(***************************************************************************)
\* useSegments as the capture scripts pass it to runScan.
useSegmentsOf(c) == c = "domain"

\* The node's answer for the block at `height` when the fetch of its
\* segment 0 throws.
FailingNode(c, height) ==
  [offers |-> TRUE, entries |-> FALSE, count |-> Some(Len(BlockEvents(c, height))),
   segments |-> <<Some(BlockEvents(c, height))>>, fails |-> {0},
   legacy |-> BlockEvents(c, height)]

\* The try block of worker w when a segment fetch throws inside getEventsAt:
\* either getEventsAt throws and the worker's catch block runs, or it
\* returns the legacy events and the attempt completes.
SegmentFault(c, w, module) ==
  /\ opts[c] # Null /\ w \in Workers(c) /\ pc[c][w] = "fetch"
  /\ lastOp.kind = "none"
  /\ LET node == FailingNode(c, h[c][w])
         r == GetEventsAtOf(module, node, useSegmentsOf(c))
     IN  /\ r.failed
         /\ IF r.threw
            THEN /\ Catch(c, w)
                 /\ UNCHANGED <<storeVars, processedFlags, nextToCommit, backoff, handled,
                                wrote, commits>>
            ELSE CompleteAttempt(c, w, processXdmEvents(StoreNow, c, r.events,
                                                        BlockExtrinsics(c, h[c][w]), h[c][w]))
         /\ lastOp' = Op("getEventsAt",
                         Some([node |-> node, useSegments |-> useSegmentsOf(c), result |-> r]),
                         c, h[c][w], module)
  /\ UNCHANGED <<exportVars, captureVars, opts, resumeFrom, scanStart, storeFaults, restarts, output,
                 repeated, written, latest, ops>>

SegmentInit == Init /\ opts["domain"] # Null

SegmentNext ==
  \/ \E c \in Chains : \E w \in Workers(c) : FetchOk(c, w)
  \/ \E c \in Chains : \E w \in Workers(c) : FetchFail(c, w)
  \/ \E c \in Chains : \E w \in Workers(c) : Wake(c, w)
  \/ \E c \in Chains : \E w \in Workers(c), module \in ChainModules : SegmentFault(c, w, module)

SegmentSpec == SegmentInit /\ [][SegmentNext]_vars

(***************************************************************************)
(* Export script: the page writers (export.ts, sqlite.ts).  The server     *)
(* holds the rows of the query in its order; a row is its position.  Every *)
(* request is answered.                                                    *)
(***************************************************************************)
MaxRows == 4

MaxPageSize == 2

MaxConcurrency == 2

\* A server: the number of rows of the result and the most rows it returns
\* for one request.
Servers == [total : 0 .. MaxRows, cap : 1 .. MaxPageSize]

\* The rows the server returns for (offset, limit).
fetchPage(server, offset, limit) ==
  LET n == Max2(0, Min2(Min2(limit, server.cap), server.total - offset))
  IN  [k \in 1 .. n |-> offset + k - 1]

\* No scanner and no capture script runs.
NoScan ==
  /\ opts = [c \in Chains |-> Null]
  /\ Started
  /\ resumeFrom = [c \in Chains |-> Null]
  /\ scanStart = [c \in Chains |-> 0]
  /\ processedFlags = [c \in Chains |-> << >>]
  /\ nextToCommit = [c \in Chains |-> 0]
  /\ h = [c \in Chains |-> << >>]
  /\ backoff = [c \in Chains |-> << >>]
  /\ pc = [c \in Chains |-> << >>]
  /\ slept = [c \in Chains |-> << >>]
  /\ storeFaults = [c \in Chains |-> {}]
  /\ handled = [c \in Chains |-> << >>]
  /\ wrote = [c \in Chains |-> FALSE]
  /\ commits = [c \in Chains |-> << >>]
  /\ restarts = 0

\* Mutant: a short page does not end the scheduling.
shortPage_Ignored(rows, pageSize) == FALSE

\* rows.length < pageSize
shortPage(rows, pageSize) == Len(rows) < pageSize

\* inFlight.delete(page)
Delete(inFlight, page) == [i \in (DOMAIN inFlight) \ {page} |-> inFlight[i]]

\* inFlight.set(i, v)
Set(inFlight, i, v) ==
  [j \in (DOMAIN inFlight) \cup {i} |-> IF j = i THEN v ELSE inFlight[j]]

\* writeRowsWithConcurrency right after seeding: pages 0 .. seed-1 are
\* requested (Null: the promise is pending).  file, pages and consumed are
\* history: the rows written, the indices of the pages written and the
\* lengths of the pages awaited, in order.
WriteRowsWithConcurrency(server, pageSize, concurrency) ==
  LET seed == Max2(1, concurrency)
  IN  [fn |-> "writeRowsWithConcurrency", server |-> server, pageSize |-> pageSize,
       concurrency |-> concurrency, inFlight |-> [i \in 0 .. (seed - 1) |-> Null],
       nextToSchedule |-> seed, noMore |-> FALSE, page |-> 0, rowCount |-> 0,
       result |-> Null, file |-> << >>, pages |-> << >>, consumed |-> << >>]

\* The request of page i is answered: its promise resolves.
Resolve(i) ==
  /\ export.fn = "writeRowsWithConcurrency"
  /\ i \in DOMAIN export.inFlight /\ export.inFlight[i] = Null
  /\ export' = [export EXCEPT !.inFlight[i] =
                  Some(fetchPage(export.server, i * export.pageSize, export.pageSize))]
  /\ UNCHANGED <<storeVars, scanVars, opVars>>

\* One iteration of the loop: the promise of `page` has resolved, the page is
\* written, the next page is scheduled unless noMore; the function returns
\* when the following page is not in flight.
TakePage ==
  /\ export.fn = "writeRowsWithConcurrency" /\ export.result = Null
  /\ export.page \in DOMAIN export.inFlight /\ export.inFlight[export.page] # Null
  /\ LET rows == export.inFlight[export.page][1]
         noMore == \/ export.noMore
                   \/ Len(rows) = 0
                   \/ Len(rows) # 0 /\ shortPage(rows, export.pageSize)
         deleted == Delete(export.inFlight, export.page)
         inFlight == IF noMore THEN deleted ELSE Set(deleted, export.nextToSchedule, Null)
         rowCount == export.rowCount + Len(rows)
     IN  export' = [export EXCEPT
                      !.inFlight = inFlight, !.noMore = noMore,
                      !.nextToSchedule = IF noMore THEN @ ELSE @ + 1,
                      !.page = @ + 1, !.rowCount = rowCount, !.file = @ \o rows,
                      !.pages = IF Len(rows) # 0 THEN Append(@, export.page) ELSE @,
                      !.consumed = Append(@, Len(rows)),
                      !.result = IF (export.page + 1) \in DOMAIN inFlight THEN Null
                                 ELSE Some(rowCount)]
  /\ UNCHANGED <<storeVars, scanVars, opVars>>

ConcurrentExportInit ==
  /\ StoreInit
  /\ OpInit
  /\ NoScan
  /\ \E server \in Servers, pageSize \in 1 .. MaxPageSize, concurrency \in 0 .. MaxConcurrency :
        export = WriteRowsWithConcurrency(server, pageSize, concurrency)

ConcurrentExportNext ==
  \/ \E i \in 0 .. (MaxRows + MaxConcurrency + 1) : Resolve(i)
  \/ TakePage

\* Requests are answered and the continuation of a resolved promise runs.
ConcurrentExportSpec ==
  ConcurrentExportInit /\ [][ConcurrentExportNext]_vars /\ WF_vars(ConcurrentExportNext)

\* Mutant: the offset advances by the requested page size.
advance_ByPageSize(offset, rows, pageSize) == offset + pageSize

\* offset += rows.length
advance(offset, rows, pageSize) == offset + Len(rows)

\* writeRowsSequential before its first request.  file and fetched are
\* history: the rows written and the lengths of the pages fetched.
WriteRowsSequential(server, pageSize, startOffset) ==
  [fn |-> "writeRowsSequential", server |-> server, pageSize |-> pageSize,
   startOffset |-> startOffset, offset |-> startOffset, rowCount |-> 0, pageIndex |-> 0,
   result |-> Null, file |-> << >>, fetched |-> << >>]

\* One iteration of the loop: the page at `offset` is fetched; an empty page
\* ends the function, any other is written and the offset advances.
FetchNext ==
  /\ export.fn = "writeRowsSequential" /\ export.result = Null
  /\ LET rows == fetchPage(export.server, export.offset, export.pageSize)
     IN  export' = IF Len(rows) = 0
                   THEN [export EXCEPT !.result = Some(export.rowCount),
                                       !.fetched = Append(@, 0)]
                   ELSE [export EXCEPT !.file = @ \o rows, !.rowCount = @ + Len(rows),
                                       !.offset = advance(@, rows, export.pageSize),
                                       !.pageIndex = @ + 1,
                                       !.fetched = Append(@, Len(rows))]
  /\ UNCHANGED <<storeVars, scanVars, opVars>>

SequentialExportInit ==
  /\ StoreInit
  /\ OpInit
  /\ NoScan
  /\ \E server \in Servers, pageSize \in 1 .. MaxPageSize, startOffset \in 0 .. (MaxRows + 1) :
        export = WriteRowsSequential(server, pageSize, startOffset)

SequentialExportNext == FetchNext

SequentialExportSpec ==
  SequentialExportInit /\ [][SequentialExportNext]_vars /\ WF_vars(SequentialExportNext)

(***************************************************************************)
(* The sequential domain capture (capture-domain.ts, the main that loops   *)
(* over the heights itself).  It runs as worker 0 of chain "domain": h is  *)
(* the loop variable, processedFlags and nextToCommit are not used.        *)
(***************************************************************************)
CHECKPOINT_EVERY == 100

\* The block the node holds at `height`: the chain content of heights 1, 2,
\* ... starts one height below the first checkpoint.
blockAt(height) == height - (CHECKPOINT_EVERY - 2)

\* The value x held by the one worker there is, worker 0.
One(x) == [w \in {0} |-> x]

\* Mutant: Math.max(START, (resumeFrom ?? START - 1) + 1), the height after
\* the persisted one.
sequentialScanStart_AfterCursor(START, resume) ==
  Max2(START, IF resume = Null THEN START ELSE resume[1] + 1)

\* const scanStart = Math.max(START, resumeFrom ?? START)
sequentialScanStart(START, resume) ==
  Max2(START, IF resume = Null THEN START ELSE resume[1])

\* h % 100 === 0: the cursor is written before the events are processed.
checkpoint(P, c, height) ==
  IF height % CHECKPOINT_EVERY = 0 THEN setLastProcessedBlockHeight(P, c, height) ELSE P

\* The state of main on chain c before the first iteration of its loop,
\* given the scan_progress table P it finds.
SequentialStart(c, o, P) ==
  LET sStart == sequentialScanStart(o.start, getLastProcessedBlockHeight(P, c))
  IN  /\ resumeFrom' = [resumeFrom EXCEPT ![c] = getLastProcessedBlockHeight(P, c)]
      /\ scanStart' = [scanStart EXCEPT ![c] = sStart]
      /\ nextToCommit' = [nextToCommit EXCEPT ![c] = sStart]
      /\ h' = [h EXCEPT ![c] = One(sStart)]
      /\ backoff' = [backoff EXCEPT ![c] = One(o.retryBackoffMs)]
      /\ pc' = [pc EXCEPT ![c] = One(IF sStart <= o.end THEN "fetch" ELSE "done")]
      /\ slept' = [slept EXCEPT ![c] = One(<< >>)]
      /\ storeFaults' = [storeFaults EXCEPT ![c] = {}]
      /\ handled' = [handled EXCEPT ![c] = One({})]
      /\ wrote' = [wrote EXCEPT ![c] = FALSE]
      /\ commits' = [commits EXCEPT ![c] = << >>]
      /\ UNCHANGED processedFlags

\* What the try block has written when it is left after the cursor write
\* (if persisted) and k records of the block.
SequentialPartial(c, persisted, k) ==
  LET height == h[c][0]
      st == processFrom(StoreNow, c, BlockEvents(c, blockAt(height)),
                        BlockExtrinsics(c, blockAt(height)), height, 1, k)
  IN  [store |-> IF persisted THEN st ELSE StoreNow,
       scan_progress |-> IF persisted THEN checkpoint(scan_progress, c, height)
                         ELSE scan_progress,
       commits |-> IF persisted /\ height % CHECKPOINT_EVERY = 0 THEN <<height>> ELSE << >>]

\* The range of k: the records of the block of the current height.
SequentialRecords(c) == 0 .. Len(BlockEvents(c, blockAt(h[c][0])))

\* The try block succeeds at height h: block and events are fetched, the
\* cursor is written if h is a checkpoint, the events are extracted, h
\* advances and the backoff is reset.
SequentialTry(c) ==
  /\ opts[c] # Null /\ pc[c][0] = "fetch"
  /\ LET height == h[c][0]
         st == processXdmEvents(StoreNow, c, BlockEvents(c, blockAt(height)),
                                BlockExtrinsics(c, blockAt(height)), height)
     IN  /\ scan_progress' = checkpoint(scan_progress, c, height)
         /\ source_inits' = st.inits
         /\ destination_successes' = st.succs
         /\ source_acks' = st.acks
         /\ event_failures' = st.failures
         /\ commits' = [commits EXCEPT ![c] =
                          IF height % CHECKPOINT_EVERY = 0 THEN Append(@, height) ELSE @]
         /\ wrote' = [wrote EXCEPT ![c] = @ \/ height % CHECKPOINT_EVERY = 0]
         /\ handled' = [handled EXCEPT ![c][0] = @ \cup {height}]
         /\ h' = [h EXCEPT ![c][0] = height + 1]
         /\ backoff' = [backoff EXCEPT ![c][0] = opts[c].retryBackoffMs]
         /\ slept' = [slept EXCEPT ![c][0] = << >>]
         /\ pc' = [pc EXCEPT ![c][0] = IF height + 1 <= opts[c].end THEN "fetch" ELSE "done"]
  /\ UNCHANGED <<captureVars, opts, resumeFrom, scanStart, processedFlags, nextToCommit,
                 storeFaults, restarts, opVars, exportVars>>

\* A call in the try block throws, a chain call (persisted = FALSE) or a
\* store call after k records (once per height): the catch block logs and
\* sleeps; h stays.
SequentialCatch(c, persisted, k) ==
  /\ opts[c] # Null /\ pc[c][0] = "fetch"
  /\ k \in SequentialRecords(c) /\ (~persisted => k = 0)
  /\ persisted => h[c][0] \notin storeFaults[c]
  /\ storeFaults' = [storeFaults EXCEPT ![c] = IF persisted THEN @ \cup {h[c][0]} ELSE @]
  /\ LET part == SequentialPartial(c, persisted, k)
     IN  /\ scan_progress' = part.scan_progress
         /\ source_inits' = part.store.inits
         /\ destination_successes' = part.store.succs
         /\ source_acks' = part.store.acks
         /\ event_failures' = part.store.failures
         /\ commits' = [commits EXCEPT ![c] = @ \o part.commits]
         /\ wrote' = [wrote EXCEPT ![c] = @ \/ part.commits # << >>]
  /\ slept' = [slept EXCEPT ![c][0] =
                 IF @ = << >> \/ @[Len(@)] < opts[c].retryMaxBackoffMs
                 THEN Append(@, backoff[c][0]) ELSE @]
  /\ pc' = [pc EXCEPT ![c][0] = "sleep"]
  /\ UNCHANGED <<captureVars, opts, resumeFrom, scanStart, processedFlags, nextToCommit, h,
                 backoff, handled, restarts, opVars, exportVars>>

\* The sleep ends: backoff = Math.min(backoff * 2, RETRY_MAX_BACKOFF_MS),
\* and the same height is tried again.
SequentialWake(c) ==
  /\ opts[c] # Null /\ pc[c][0] = "sleep"
  /\ backoff' = [backoff EXCEPT ![c][0] = Min2(@ * 2, opts[c].retryMaxBackoffMs)]
  /\ pc' = [pc EXCEPT ![c][0] = "fetch"]
  /\ UNCHANGED <<storeVars, captureVars, opts, resumeFrom, scanStart, processedFlags,
                 nextToCommit, h, slept, storeFaults, handled, wrote, commits, restarts,
                 opVars, exportVars>>

\* The process is terminated from outside, between two iterations, in a
\* sleep, or inside the try block after the cursor write and k records, and
\* is started again with the same START and END.
SequentialCrash(c, persisted, k) ==
  /\ opts[c] # Null /\ restarts < MaxRestarts
  /\ k \in SequentialRecords(c) /\ (~persisted => k = 0)
  /\ persisted => pc[c][0] = "fetch"
  /\ LET part == SequentialPartial(c, persisted, k)
     IN  /\ scan_progress' = part.scan_progress
         /\ source_inits' = part.store.inits
         /\ destination_successes' = part.store.succs
         /\ source_acks' = part.store.acks
         /\ event_failures' = part.store.failures
         /\ SequentialStart(c, opts[c], part.scan_progress)
  /\ restarts' = restarts + 1
  /\ UNCHANGED <<captureVars, opts, opVars, exportVars>>

\* START at or one below the first checkpoint, END above it.
SequentialOptions ==
  [start : (CHECKPOINT_EVERY - 1) .. CHECKPOINT_EVERY,
   end : (CHECKPOINT_EVERY + MaxEnd - 3) .. (CHECKPOINT_EVERY + MaxEnd - 2),
   blockConcurrency : {1},
   retryBackoffMs : {RETRY_BACKOFF_MS}, retryMaxBackoffMs : {RETRY_MAX_BACKOFF_MS}]

\* A fresh store and the domain capture before the first iteration.
SequentialInit ==
  /\ StoreInit
  /\ OpInit
  /\ export = NoExport
  /\ \E o \in SequentialOptions : opts = [c \in Chains |-> IF c = "domain" THEN o ELSE Null]
  /\ Started
  /\ resumeFrom = [c \in Chains |-> Null]
  /\ scanStart = [c \in Chains |->
        IF opts[c] = Null THEN 0 ELSE sequentialScanStart(opts[c].start, resumeFrom[c])]
  /\ processedFlags = [c \in Chains |-> << >>]
  /\ nextToCommit = scanStart
  /\ h = [c \in Chains |-> IF opts[c] = Null THEN << >> ELSE One(scanStart[c])]
  /\ backoff = [c \in Chains |-> IF opts[c] = Null THEN << >> ELSE One(opts[c].retryBackoffMs)]
  /\ pc = [c \in Chains |-> IF opts[c] = Null THEN << >>
             ELSE One(IF scanStart[c] <= opts[c].end THEN "fetch" ELSE "done")]
  /\ slept = [c \in Chains |-> IF opts[c] = Null THEN << >> ELSE One(<< >>)]
  /\ storeFaults = [c \in Chains |-> {}]
  /\ handled = [c \in Chains |-> IF opts[c] = Null THEN << >> ELSE One({})]
  /\ wrote = [c \in Chains |-> FALSE]
  /\ commits = [c \in Chains |-> << >>]
  /\ restarts = 0

SequentialNext ==
  \E c \in {"domain"} :
    \/ SequentialTry(c)
    \/ \E persisted \in BOOLEAN, k \in SequentialRecords(c) : SequentialCatch(c, persisted, k)
    \/ SequentialWake(c)
    \/ \E persisted \in BOOLEAN, k \in SequentialRecords(c) : SequentialCrash(c, persisted, k)

SequentialSpec == SequentialInit /\ [][SequentialNext]_vars

(***************************************************************************)
(* Properties of the Block Scanner, checked under Spec.                    *)
(***************************************************************************)
AllDone(c) == \A w \in Workers(c) : pc[c][w] = "done"

HandledBy(c) == UNION {handled[c][w] : w \in Workers(c)}

\* Everything the extraction of block `height` of chain c writes is in the store.
BlockStored(c, height) ==
  LET st == processXdmEvents(EmptyStore, c, BlockEvents(c, height),
                             BlockExtrinsics(c, height), height)
  IN  /\ BagToSet(st.inits) \subseteq BagToSet(source_inits)
      /\ BagToSet(st.succs) \subseteq BagToSet(destination_successes)
      /\ BagToSet(st.acks) \subseteq BagToSet(source_acks)
      /\ BagToSet(st.failures) \subseteq BagToSet(event_failures)

\* C1: once a run has persisted ScanProgress, every height from scanStart
\* up to the persisted value has been processed by a worker of this run, its
\* rows are in the store and its flag is set, and no worker is still
\* fetching or retrying it.
C1_CursorCoversOnlyProcessed ==
  \A c \in Chains :
    (opts[c] # Null /\ wrote[c]) =>
      /\ scan_progress[c] # Null
      /\ \A height \in scanStart[c] .. scan_progress[c][1] :
           /\ height <= opts[c].end
           /\ processedFlags[c][height - scanStart[c]]
           /\ height \in HandledBy(c)
           /\ BlockStored(c, height)
           /\ \A w \in Workers(c) : pc[c][w] # "done" => h[c][w] # height

\* C1 witness: the cursor has advanced past scanStart while another worker
\* sleeps before a retry.
C1_Witness ==
  \E c \in Chains :
    /\ opts[c] # Null /\ wrote[c]
    /\ scan_progress[c][1] > scanStart[c]
    /\ \E w \in Workers(c) : pc[c][w] = "sleep" /\ backoff[c][w] > opts[c].retryBackoffMs

\* The heights first + i, first + i + N, ... that are <= end.
Assigned(first, end, N, i) ==
  {x \in first .. end : x >= first + i /\ (x - first - i) % N = 0}

Partitioned(c, first) ==
  LET N == opts[c].blockConcurrency
      end == opts[c].end
  IN  /\ \A i \in Workers(c) :
           /\ handled[c][i] \subseteq Assigned(first, end, N, i)
           /\ pc[c][i] = "done" => handled[c][i] = Assigned(first, end, N, i)
      /\ \A i, j \in Workers(c) : i # j => handled[c][i] \cap handled[c][j] = {}
      /\ AllDone(c) => HandledBy(c) = first .. end

\* C2 as amended: in a run over [start, end] with N workers, worker i
\* processes exactly the heights scanStart + i, scanStart + i + N, ... <= end,
\* where scanStart = max(start, persisted cursor); the workers' sets are
\* pairwise disjoint and their union is [scanStart, end].
C2_PartitionFromScanStart ==
  \A c \in Chains : opts[c] # Null => Partitioned(c, scanStart[c])

\* C2 as stated: worker i processes exactly start + i, start + i + N, ... <= end
\* and the union of the workers' sets is [start, end].
C2_PartitionFromStart ==
  \A c \in Chains : opts[c] # Null => Partitioned(c, opts[c].start)

\* C2 witness: a completed run of two or more workers over a range longer
\* than the pool, resumed above start.
C2_Witness ==
  \E c \in Chains :
    /\ opts[c] # Null /\ AllDone(c)
    /\ opts[c].blockConcurrency >= 2
    /\ scanStart[c] > opts[c].start
    /\ opts[c].end - scanStart[c] + 1 > opts[c].blockConcurrency

\* The rows of a table whose block height is at most H.
SourceUpTo(T, H) == [x \in {y \in BagToSet(T) : y.source_block_height <= H} |-> T[x]]

DestinationUpTo(T, H) ==
  [x \in {y \in BagToSet(T) : y.destination_block_height <= H} |-> T[x]]

MaxOf(S) == CHOOSE x \in S : \A y \in S : y <= x

\* C4: the stored ScanProgress of a chain is the maximum of all heights
\* ever written for it (and absent while nothing was written), so it never
\* decreases.
C4_ProgressIsMaxWritten ==
  \A c \in Chains :
    IF written[c] = {} THEN scan_progress[c] = Null
    ELSE scan_progress[c] = Some(MaxOf(written[c]))

\* C4 witness: a height below the stored value has just been written.
C4_Witness ==
  /\ lastOp.kind = "setLastProcessedBlockHeight"
  /\ scan_progress[lastOp.chain] # Null
  /\ lastOp.height < scan_progress[lastOp.chain][1]

UpsertKinds == {"upsertSourceInit", "upsertDestinationSuccess", "upsertSourceAck"}

\* C5: an upsert that repeats the upsert just before it (same function, same
\* row) leaves the three event tables as they were.
C5_UpsertIdempotent ==
  [][(repeated' /\ lastOp'.kind \in UpsertKinds) => tables' = tables]_vars

\* C5 witness: the same row has just been upserted twice in a row.
C5_Witness ==
  /\ repeated
  /\ lastOp.kind \in UpsertKinds
  /\ ops >= 2

\* keyOf maps each row of table T to its key.
UniqueKeys(T, keyOf) ==
  /\ \A x \in BagToSet(T) : T[x] = 1
  /\ \A x, y \in BagToSet(T) : keyOf[x] = keyOf[y] => x = y

\* C6: every table holds at most one row per key, and the row of an upsert
\* is, right after it, the row the table holds for its key.
C6_OneRowPerKey ==
  /\ UniqueKeys(source_inits, [x \in BagToSet(source_inits) |-> SourceInitKey(x)])
  /\ UniqueKeys(destination_successes,
                [x \in BagToSet(destination_successes) |-> DestinationSuccessKey(x)])
  /\ UniqueKeys(source_acks, [x \in BagToSet(source_acks) |-> SourceAckKey(x)])
  /\ lastOp.kind = "upsertSourceInit" => BagIn(lastOp.row[1], source_inits)
  /\ lastOp.kind = "upsertDestinationSuccess" => BagIn(lastOp.row[1], destination_successes)
  /\ lastOp.kind = "upsertSourceAck" => BagIn(lastOp.row[1], source_acks)

\* C6 witness: two different upserts into destination_successes, and nothing
\* else, have left one row: the second overwrote the first.
C6_Witness ==
  /\ ops = 2 /\ ~repeated
  /\ lastOp.kind = "upsertDestinationSuccess"
  /\ source_inits = EmptyBag /\ source_acks = EmptyBag
  /\ \A c \in Chains : written[c] = {}
  /\ BagCardinality(destination_successes) = 1

\* C21: whatever the order in which the upserts of the workers commit, each
\* table holds exactly one row for every key ever upserted and no other, and
\* that row is the row of the upsert on the key that committed last.
C21_NoLostUpsert ==
  /\ BagToSet(source_inits) = latest.inits
  /\ BagToSet(destination_successes) = latest.succs
  /\ BagToSet(source_acks) = latest.acks
  /\ \A x \in latest.inits : source_inits[x] = 1
  /\ \A x \in latest.succs : destination_successes[x] = 1
  /\ \A x \in latest.acks : source_acks[x] = 1

\* C21 witness: two different upserts on one key of source_acks, and nothing
\* else, have committed: the row holds the result of the second.
C21_Witness ==
  /\ ops = 2 /\ ~repeated
  /\ lastOp.kind = "upsertSourceAck"
  /\ Cardinality(latest.acks) = 1
  /\ latest.inits = {} /\ latest.succs = {}
  /\ \A c \in Chains : written[c] = {}
  /\ \A x \in BagToSet(source_acks) : x.result = lastOp.row[1].result

InitsOn(X) == {i \in BagToSet(source_inits) : i.source_chain = X}

\* The rows of table T whose chain is c.
SourceRowsOf(T, c) == [x \in {y \in BagToSet(T) : y.source_chain = c} |-> T[x]]

DestinationRowsOf(T, c) == [x \in {y \in BagToSet(T) : y.destination_chain = c} |-> T[x]]

FailureRowsOf(T, c) == [x \in {y \in BagToSet(T) : y.chain = c} |-> T[x]]

\* What the store holds for chain c: its event rows, its EventFailure
\* records and its ScanProgress row.
Footprint(c) ==
  <<SourceRowsOf(source_inits, c), DestinationRowsOf(destination_successes, c),
    SourceRowsOf(source_acks, c), FailureRowsOf(event_failures, c), scan_progress[c]>>

\* The state of the capture process of chain c.
ScanOf(c) == <<processedFlags[c], nextToCommit[c], h[c], backoff[c], pc[c], slept[c]>>

\* C22: a step of the scan of one chain, whatever the scan of the other chain
\* has done so far, leaves the rows whose chain field is the other chain and
\* the ScanProgress row of the other chain as they were.
C22_ScansIndependent ==
  [][\A A \in Chains :
       (ScanOf(A)' # ScanOf(A) /\ ScanOf(OtherChain(A))' = ScanOf(OtherChain(A)))
          => Footprint(OtherChain(A))' = Footprint(OtherChain(A))]_vars

\* C22 witness: both scans have written event rows and their ScanProgress
\* row, and the consensus scan has stored a deposit while the domain scan is
\* still under way.
C22_Witness ==
  /\ \A c \in Chains : scan_progress[c] # Null /\ InitsOn(c) # {}
  /\ DestinationRowsOf(destination_successes, "consensus") # EmptyBag
  /\ \E w \in Workers("domain") : pc["domain"][w] # "done"

(***************************************************************************)
(* Properties of the Correlator, checked under StoreSpec.  They speak of   *)
(* the output of a run while the store is as the run read it.              *)
(***************************************************************************)
JustMatched(mode) == lastOp.kind = "match" /\ ACK_MODE(lastOp.env) = mode

HasDestinationSuccess(Y, channel_id, nonce) ==
  \E d \in BagToSet(destination_successes) :
     d.destination_chain = Y /\ d.channel_id = channel_id /\ d.nonce = nonce

HasOkAck(X, channel_id, nonce) ==
  \E a \in BagToSet(source_acks) :
     a.source_chain = X /\ a.channel_id = channel_id /\ a.nonce = nonce /\ a.result = "Ok"

Emitted(dir, channel_id, nonce) ==
  \E rec \in BagToSet(output[dir]) : rec.channel_id = channel_id /\ rec.nonce = nonce

\* C7: in mode `both`, a SourceInit on X has a record in the output of
\* direction X -> Y iff a DestinationSuccess for its key exists on Y or an Ok
\* SourceAck for its key exists on X.
C7_BothModeCorrelation ==
  JustMatched("both") =>
    \A dir \in Directions : \A i \in InitsOn(SourceOf(dir)) :
      Emitted(dir, i.channel_id, i.nonce)
        <=> \/ HasDestinationSuccess(OtherChain(SourceOf(dir)), i.channel_id, i.nonce)
            \/ HasOkAck(SourceOf(dir), i.channel_id, i.nonce)

\* C7 witness: a run in mode `both` that emitted a record for one SourceInit
\* and none for another SourceInit of the same chain.
C7_Witness ==
  /\ JustMatched("both")
  /\ \E dir \in Directions : \E i, j \in InitsOn(SourceOf(dir)) :
        /\ Emitted(dir, i.channel_id, i.nonce)
        /\ ~Emitted(dir, j.channel_id, j.nonce)

\* C8: in mode `dest-only` a SourceInit on X is emitted iff a
\* DestinationSuccess for its key exists on Y; in mode `ack-only` iff an Ok
\* SourceAck for its key exists on X.
C8_SingleModeCorrelation ==
  /\ JustMatched("dest-only") =>
       \A dir \in Directions : \A i \in InitsOn(SourceOf(dir)) :
         Emitted(dir, i.channel_id, i.nonce)
           <=> HasDestinationSuccess(OtherChain(SourceOf(dir)), i.channel_id, i.nonce)
  /\ JustMatched("ack-only") =>
       \A dir \in Directions : \A i \in InitsOn(SourceOf(dir)) :
         Emitted(dir, i.channel_id, i.nonce)
           <=> HasOkAck(SourceOf(dir), i.channel_id, i.nonce)

\* C8 witness: a run in mode `ack-only` that left out a SourceInit whose only
\* Ok acknowledgment is stored under the other chain.
C8_Witness ==
  /\ JustMatched("ack-only")
  /\ \E dir \in Directions : \E i \in InitsOn(SourceOf(dir)) :
        /\ HasOkAck(OtherChain(SourceOf(dir)), i.channel_id, i.nonce)
        /\ ~Emitted(dir, i.channel_id, i.nonce)

\* C9: in mode `both`, a record is labelled "both" exactly when a
\* DestinationSuccess and an Ok SourceAck exist for its key, "dest" exactly
\* when only the DestinationSuccess exists, "ack" exactly when only the Ok
\* SourceAck exists.
C9_ConfirmedByLabel ==
  JustMatched("both") =>
    \A dir \in Directions : \A rec \in BagToSet(output[dir]) :
      LET D == HasDestinationSuccess(OtherChain(SourceOf(dir)), rec.channel_id, rec.nonce)
          A == HasOkAck(SourceOf(dir), rec.channel_id, rec.nonce)
      IN  /\ rec.confirmed_by = "both" <=> (D /\ A)
          /\ rec.confirmed_by = "dest" <=> (D /\ ~A)
          /\ rec.confirmed_by = "ack" <=> (A /\ ~D)

\* C9 witness: a run in mode `both` that emitted a record labelled "both".
C9_Witness ==
  /\ JustMatched("both")
  /\ \E dir \in Directions : \E rec \in BagToSet(output[dir]) : rec.confirmed_by = "both"

\* C10: in every mode, the amount of an emitted record is the amount of the
\* DestinationSuccess row of its key when there is one, and the amount of
\* its SourceInit row otherwise.
C10_AmountPrecedence ==
  lastOp.kind = "match" =>
    \A dir \in Directions : \A rec \in BagToSet(output[dir]) :
      LET ds == {d \in BagToSet(destination_successes) :
                   /\ d.destination_chain = OtherChain(SourceOf(dir))
                   /\ d.channel_id = rec.channel_id /\ d.nonce = rec.nonce}
          is == {i \in InitsOn(SourceOf(dir)) :
                   i.channel_id = rec.channel_id /\ i.nonce = rec.nonce}
      IN  /\ is # {}
          /\ IF ds # {} THEN \A d \in ds : rec.amount = d.amount
             ELSE \A i \in is : rec.amount = i.amount

\* C10 witness: a record of a run in mode `ack-only` carries the
\* DestinationSuccess amount "95" while its SourceInit row says "100".
C10_Witness ==
  /\ JustMatched("ack-only")
  /\ \E dir \in Directions : \E rec \in BagToSet(output[dir]) :
       \E i \in InitsOn(SourceOf(dir)) :
          /\ i.channel_id = rec.channel_id /\ i.nonce = rec.nonce
          /\ i.amount = "100" /\ rec.amount = "95"

(***************************************************************************)
(* Properties of event extraction, checked under ExtractSpec.              *)
(***************************************************************************)
\* The number of EventFailure records in F for an event of block
\* (chain, height) with the section, method and extrinsic index of rec.
FailuresFor(F, chain, height, rec) ==
  BagCardinality([x \in {y \in BagToSet(F) : /\ y.chain = chain
                                             /\ y.block_height = height
                                             /\ y.extrinsic_index = rec.phase
                                             /\ y.section = rec.section
                                             /\ y.method = rec.method} |-> F[x]])

\* The records of events with the section, method and phase of rec.
Alike(events, rec) ==
  {i \in DOMAIN events : /\ events[i].section = rec.section
                         /\ events[i].method = rec.method
                         /\ events[i].phase = rec.phase}

\* events without its j-th record.
Omit(events, j) ==
  [i \in 1 .. (Len(events) - 1) |-> IF i < j THEN events[i] ELSE events[i + 1]]

Initiation(rec) == rec.section = "transporter" /\ rec.method = "OutgoingTransferInitiated"

StaleIndex(rec, extrinsics) ==
  /\ Initiation(rec)
  /\ rec.phase # Null
  /\ (rec.phase[1] < 0 \/ rec.phase[1] >= Len(extrinsics))

\* An initiation whose origin extrinsic exists in the block but is unsigned
\* or has no resolvable signer, or which has no extrinsic phase.
UnverifiableOrigin(rec, extrinsics) ==
  /\ Initiation(rec)
  /\ \/ rec.phase = Null
     \/ /\ rec.phase # Null /\ rec.phase[1] >= 0 /\ rec.phase[1] < Len(extrinsics)
        /\ \/ ~extrinsics[rec.phase[1] + 1].isSigned
           \/ extrinsics[rec.phase[1] + 1].signer = ""

\* The step is a call of processXdmEvents whose j-th record is rejected: each
\* record alike adds exactly one EventFailure, and source_inits ends as if the
\* j-th record had not been in the block.
RejectedByStep(j) ==
  LET events == lastOp'.row[1].events
      extrinsics == lastOp'.row[1].extrinsics
  IN  /\ FailuresFor(event_failures', lastOp'.chain, lastOp'.height, events[j])
           = FailuresFor(event_failures, lastOp'.chain, lastOp'.height, events[j])
               + Cardinality(Alike(events, events[j]))
      /\ source_inits' = processXdmEvents(StoreNow, lastOp'.chain, Omit(events, j),
                                          extrinsics, lastOp'.height).inits

\* C11: an OutgoingTransferInitiated event whose extrinsic index is negative
\* or >= the block's extrinsic count records one EventFailure and leaves the
\* SourceInit table as it would be without the event.
C11_StaleIndexRejected ==
  [][lastOp'.kind = "processXdmEvents" =>
       \A j \in DOMAIN lastOp'.row[1].events :
          StaleIndex(lastOp'.row[1].events[j], lastOp'.row[1].extrinsics)
            => RejectedByStep(j)]_vars

\* C11 witness: a block with a signed initiation and an initiation whose
\* index equals the extrinsic count has been processed; the store holds the
\* row of the first and one EventFailure.
C11_Witness ==
  /\ lastOp.kind = "processXdmEvents"
  /\ \E j \in DOMAIN lastOp.row[1].events :
        /\ StaleIndex(lastOp.row[1].events[j], lastOp.row[1].extrinsics)
        /\ lastOp.row[1].events[j].phase = Some(Len(lastOp.row[1].extrinsics))
  /\ Len(lastOp.row[1].extrinsics) = 1
  /\ BagCardinality(event_failures) = 1
  /\ \E r \in BagToSet(source_inits) : r.source_block_height = lastOp.height

\* C12: an OutgoingTransferInitiated event whose origin extrinsic is
\* unsigned, has no resolvable signer or does not exist is recorded as an
\* EventFailure and writes no SourceInit; every SourceInit row has a
\* non-empty from_address.
C12_UnverifiableOriginRejected ==
  /\ [][lastOp'.kind = "processXdmEvents" =>
          \A j \in DOMAIN lastOp'.row[1].events :
             UnverifiableOrigin(lastOp'.row[1].events[j], lastOp'.row[1].extrinsics)
               => RejectedByStep(j)]_vars
  /\ [](\A r \in BagToSet(source_inits) : r.from_address # "")

\* C12 witness: a block whose only extrinsic is unsigned, with an initiation
\* from it and an initiation outside any extrinsic, has been processed: two
\* EventFailures, and no SourceInit row from this block.
C12_Witness ==
  /\ lastOp.kind = "processXdmEvents"
  /\ lastOp.row[1].extrinsics = <<Ext(FALSE, "addrZ", Null)>>
  /\ \E i, j \in DOMAIN lastOp.row[1].events :
        /\ lastOp.row[1].events[i] = OTI("5", Some("100"), Some(0))
        /\ lastOp.row[1].events[j] = OTI("5", Some("100"), Null)
  /\ BagCardinality(event_failures) = 2
  /\ \A r \in BagToSet(source_inits) : r.source_block_height # lastOp.height

(***************************************************************************)
(* Failure isolation, checked under Spec.                                  *)
(***************************************************************************)
Deposit(rec) == rec.section = "transporter" /\ rec.method = "IncomingTransferSuccessful"

Acknowledgment(rec) == rec.section = "messenger" /\ rec.method = "OutboxMessageResult"

\* The record is one whose decoding or handling fails.
Failing(rec, extrinsics) ==
  \/ (Initiation(rec) \/ Deposit(rec) \/ Acknowledgment(rec)) /\ ~rec.decodable
  \/ StaleIndex(rec, extrinsics)
  \/ UnverifiableOrigin(rec, extrinsics)

\* The store holds what the record of block (c, height) calls for: an
\* EventFailure when it fails, else a row with its key written at this height.
Extracted(c, height, rec, extrinsics) ==
  IF Failing(rec, extrinsics) THEN FailuresFor(event_failures, c, height, rec) >= 1
  ELSE /\ Initiation(rec) =>
            \E r \in BagToSet(source_inits) :
               /\ SourceInitKey(r) = <<c, rec.channel_id, rec.nonce>>
               /\ r.source_block_height = height
       /\ Deposit(rec) =>
            \E r \in BagToSet(destination_successes) :
               /\ DestinationSuccessKey(r) = <<c, rec.channel_id, rec.nonce>>
               /\ r.destination_block_height = height
       /\ Acknowledgment(rec) =>
            \E r \in BagToSet(source_acks) :
               /\ SourceAckKey(r) = <<c, rec.channel_id, rec.nonce>>
               /\ r.source_block_height = height

\* C13: for every height a worker has processed, each failing event of the
\* block has an EventFailure, every other event of the block, before and
\* after a failing one, has its row in the store, and the height is marked
\* done.
C13_FailureIsolation ==
  \A c \in Chains :
    opts[c] # Null =>
      \A height \in HandledBy(c) :
        /\ processedFlags[c][height - scanStart[c]]
        /\ \A k \in DOMAIN BlockEvents(c, height) :
              Extracted(c, height, BlockEvents(c, height)[k], BlockExtrinsics(c, height))

\* C13 witness: a processed block whose second event failed and whose first
\* and third events are extracted.
C13_Witness ==
  \E c \in Chains :
    /\ opts[c] # Null
    /\ \E height \in HandledBy(c) :
         LET events == BlockEvents(c, height)
             extrinsics == BlockExtrinsics(c, height)
         IN  /\ Len(events) = 3
             /\ ~Failing(events[1], extrinsics)
             /\ Failing(events[2], extrinsics)
             /\ ~events[2].decodable
             /\ ~Failing(events[3], extrinsics)
             /\ Initiation(events[3])
             /\ Extracted(c, height, events[3], extrinsics)

(***************************************************************************)
(* Fault handling of the workers, checked under Spec.                      *)
(***************************************************************************)
\* The heights of worker w of chain c below its current height.
Behind(c, w) ==
  {x \in Assigned(scanStart[c], opts[c].end, opts[c].blockConcurrency, w) : x < h[c][w]}

\* No worker has ended with an error; a worker that ended has passed `end`;
\* every height a worker has left behind is marked done.
NeverAbandons ==
  \A c \in Chains : \A w \in Workers(c) :
    /\ pc[c][w] \in {"fetch", "sleep", "done"}
    /\ pc[c][w] = "done" <=> h[c][w] > opts[c].end
    /\ \A x \in Behind(c, w) : processedFlags[c][x - scanStart[c]] /\ x \in handled[c][w]

\* Within a run, a step leaves a worker at its height, still trying, or
\* moves it to its next height with the height it leaves marked done.
StaysUntilDone ==
  \A c \in Chains : \A w \in Workers(c) :
    (restarts' = restarts /\ pc[c][w] \in {"fetch", "sleep"}) =>
      \/ h'[c][w] = h[c][w] /\ pc'[c][w] \in {"fetch", "sleep"}
      \/ /\ pc[c][w] = "fetch"
         /\ h'[c][w] = h[c][w] + opts[c].blockConcurrency
         /\ processedFlags'[c][h[c][w] - scanStart[c]]

\* C14: a fault at height h never ends a worker and never makes it leave h:
\* the worker stays at h, sleeping or trying, until h is marked done, and
\* only then starts h + N.
C14_RetrySameHeight == []NeverAbandons /\ [][StaysUntilDone]_vars

\* C14 witness: a worker has processed a height and is trying its next
\* height again after two faults there, while another worker has finished.
C14_Witness ==
  \E c \in Chains : \E w, v \in Workers(c) :
    /\ pc[c][w] = "fetch" /\ Len(slept[c][w]) >= 2
    /\ handled[c][w] # {}
    /\ v # w /\ pc[c][v] = "done"

(***************************************************************************)
(* Store faults, checked under FaultSpec.                                  *)
(***************************************************************************)
\* C15: once a store write has failed at a height, the scan has ended (no
\* worker is trying or sleeping) and the persisted cursor is below that
\* height.
C15_StoreFaultIsFatal ==
  \A c \in Chains :
    opts[c] # Null =>
      \A x \in storeFaults[c] :
        /\ \A w \in Workers(c) : pc[c][w] \notin {"fetch", "sleep"}
        /\ scan_progress[c] = Null \/ scan_progress[c][1] < x

(***************************************************************************)
(* Backoff, checked under RetrySpec.                                       *)
(***************************************************************************)
RECURSIVE Pow2(_)
Pow2(k) == IF k = 0 THEN 1 ELSE 2 * Pow2(k - 1)

\* C16: every delay a worker sleeps is at most retryMaxBackoffMs, and the
\* k-th consecutive retry of a height sleeps min(base * 2^(k-1), cap).
C16_BackoffWithinCap ==
  \A c \in Chains : \A w \in Workers(c) :
    /\ pc[c][w] = "sleep" => backoff[c][w] <= opts[c].retryMaxBackoffMs
    /\ \A k \in DOMAIN slept[c][w] :
         /\ slept[c][w][k] <= opts[c].retryMaxBackoffMs
         /\ slept[c][w][k]
              = Min2(opts[c].retryBackoffMs * Pow2(k - 1), opts[c].retryMaxBackoffMs)

\* The same under configurations whose base does not exceed the cap.
BackoffWithinCapWhenBaseIs ==
  \A c \in Chains :
    (opts[c] # Null /\ opts[c].retryBackoffMs <= opts[c].retryMaxBackoffMs) =>
      \A w \in Workers(c) :
        /\ pc[c][w] = "sleep" => backoff[c][w] <= opts[c].retryMaxBackoffMs
        /\ \A k \in DOMAIN slept[c][w] :
             slept[c][w][k]
               = Min2(opts[c].retryBackoffMs * Pow2(k - 1), opts[c].retryMaxBackoffMs)

\* C17: at every height a worker starts with the base delay: before its
\* first retry there its backoff is retryBackoffMs, and the first delay it
\* sleeps there is retryBackoffMs.
C17_FirstRetrySleepsBase ==
  \A c \in Chains : \A w \in Workers(c) :
    /\ (pc[c][w] = "fetch" /\ slept[c][w] = << >>) => backoff[c][w] = opts[c].retryBackoffMs
    /\ slept[c][w] # << >> => slept[c][w][1] = opts[c].retryBackoffMs

\* C17 witness: a worker that has processed a height sleeps its first retry
\* of the next one while another worker's backoff is above the base.
C17_Witness ==
  \E c \in Chains : \E w, v \in Workers(c) :
    /\ handled[c][w] # {} /\ pc[c][w] = "sleep" /\ Len(slept[c][w]) = 1
    /\ v # w /\ pc[c][v] = "sleep" /\ backoff[c][v] > opts[c].retryBackoffMs

(***************************************************************************)
(* Completion, checked under LiveSpec.                                     *)
(***************************************************************************)
\* The run of chain c has ended with every height of [scanStart, end] marked
\* done and ScanProgress = end.
Completed(c) ==
  /\ AllDone(c)
  /\ \A i \in DOMAIN processedFlags[c] : processedFlags[c][i]
  /\ DOMAIN processedFlags[c] = 0 .. (opts[c].end - scanStart[c])
  /\ scan_progress[c] = Some(opts[c].end)

\* C18: when sleeps end and every height's fetch succeeds at some point,
\* the scan terminates with every height of [scanStart, end] marked done and
\* ScanProgress = end.
C18_Completion ==
  <>[](\A c \in Chains : opts[c] # Null => Completed(c))

\* C18 witness: a run of two workers over four heights has completed, each
\* worker having processed two of them.
C18_Witness ==
  \E c \in Chains :
    /\ opts[c] # Null /\ Completed(c)
    /\ opts[c].blockConcurrency = 2
    /\ opts[c].end - scanStart[c] = 3
    /\ \A w \in Workers(c) : Cardinality(handled[c][w]) = 2

(***************************************************************************)
(* Resumption and reprocessing, checked under Spec.                        *)
(***************************************************************************)
\* C19: a run starts at max(start, persisted cursor), at start when no
\* cursor is persisted; the cursor it resumes from is the one the store held
\* when it started; no worker is ever at, or has processed, a height below
\* it; and a completed run has processed every height of [scanStart, end].
C19_ResumeFromCursor ==
  \A c \in Chains :
    opts[c] # Null =>
      /\ resumeFrom[c] = Null => scanStart[c] = opts[c].start
      /\ resumeFrom[c] # Null =>
           /\ scanStart[c] >= opts[c].start /\ scanStart[c] >= resumeFrom[c][1]
           /\ scanStart[c] \in {opts[c].start, resumeFrom[c][1]}
      /\ ~wrote[c] => resumeFrom[c] = scan_progress[c]
      /\ \A w \in Workers(c) :
           /\ h[c][w] >= scanStart[c]
           /\ \A x \in handled[c][w] : x >= scanStart[c]
      /\ AllDone(c) => HandledBy(c) = scanStart[c] .. opts[c].end

\* C19 witness: a restarted run resumed from a cursor above start, at the
\* cursor's height, and has processed that height again.
C19_Witness ==
  \E c \in Chains :
    /\ opts[c] # Null /\ restarts > 0
    /\ resumeFrom[c] # Null /\ resumeFrom[c][1] > opts[c].start
    /\ scanStart[c] = resumeFrom[c][1]
    /\ resumeFrom[c][1] \in HandledBy(c)
    /\ ~AllDone(c)

\* The heights marked done at or above the commit cursor: a crash now makes
\* the next run process them again.
DoneAboveCursor(c) ==
  {x \in nextToCommit[c] .. opts[c].end : processedFlags[c][x - scanStart[c]]}

\* C20: the heights marked done above the commit cursor lie within the
\* window of N heights that starts at the cursor, so there are fewer than N
\* of them whatever the length of the range.
C20_ReprocessingWithinWindow ==
  \A c \in Chains :
    opts[c] # Null =>
      /\ \A x \in DoneAboveCursor(c) : x < nextToCommit[c] + opts[c].blockConcurrency
      /\ Cardinality(DoneAboveCursor(c)) < opts[c].blockConcurrency

(***************************************************************************)
(* More properties of the Correlator, checked under StoreSpec.             *)
(***************************************************************************)
\* C23: in the output of a run, each direction holds every record once, no
\* two of its records have the same (channel_id, nonce), and it has at most
\* as many records as source_inits has rows of the direction's source chain.
C23_JoinOneToOne ==
  lastOp.kind = "match" =>
    \A dir \in Directions :
       /\ \A rec \in BagToSet(output[dir]) : output[dir][rec] = 1
       /\ \A r1, r2 \in BagToSet(output[dir]) :
             (r1.channel_id = r2.channel_id /\ r1.nonce = r2.nonce) => r1 = r2
       /\ BagCardinality(output[dir])
             <= BagCardinality(SourceRowsOf(source_inits, SourceOf(dir)))

\* C23 witness: a run has emitted the record of an initiation whose key has
\* a deposit row on each of the two chains.
C23_Witness ==
  /\ lastOp.kind = "match"
  /\ \E i \in BagToSet(source_inits) :
        /\ \A c \in Chains : HasDestinationSuccess(c, i.channel_id, i.nonce)
        /\ \E dir \in Directions :
              SourceOf(dir) = i.source_chain /\ Emitted(dir, i.channel_id, i.nonce)

\* The contents of a store that confirm, in `mode`, the initiation i.
Confirms(mode, i) ==
  LET dest == HasDestinationSuccess(OtherChain(i.source_chain), i.channel_id, i.nonce)
      ack == HasOkAck(i.source_chain, i.channel_id, i.nonce)
  IN  \/ mode = "dest-only" /\ dest
      \/ mode = "ack-only" /\ ack
      \/ mode = "both" /\ (dest \/ ack)

\* C24: a run of the correlator, in any mode, leaves the rows of
\* source_inits, destination_successes and source_acks and the ScanProgress
\* rows as they were.
C24_CorrelatorReadOnly ==
  [][(lastOp'.kind = "match" /\ ops' = ops)
        => <<tables, scan_progress>>' = <<tables, scan_progress>>]_vars

\* C24 witness: a run has emitted a record from a store that holds rows in
\* source_inits and destination_successes and a ScanProgress row.
C24_Witness ==
  /\ lastOp.kind = "match"
  /\ source_inits # EmptyBag /\ destination_successes # EmptyBag
  /\ \E c \in Chains : scan_progress[c] # Null
  /\ \E dir \in Directions : output[dir] # EmptyBag

\* The output of the last run holds a record for exactly the initiations
\* the store confirms in the mode of the run.
ReflectsStore ==
  lastOp.kind = "match" =>
    \A dir \in Directions :
       /\ \A i \in InitsOn(SourceOf(dir)) :
             Emitted(dir, i.channel_id, i.nonce) <=> Confirms(ACK_MODE(lastOp.env), i)
       /\ \A rec \in BagToSet(output[dir]) :
             \E i \in InitsOn(SourceOf(dir)) :
                i.channel_id = rec.channel_id /\ i.nonce = rec.nonce

\* A run in the mode of the run just before it, on the store that run read.
SecondRun ==
  /\ lastOp.kind = "match" /\ lastOp'.kind = "match"
  /\ ACK_MODE(lastOp'.env) = ACK_MODE(lastOp.env)

\* C25: the output of a run is determined by the store, the direction and
\* the mode: a run right after a run in the same mode gives the same
\* records, and the records of any run are those of the initiations the
\* store confirms at the time of the run, whatever earlier runs have emitted.
C25_CorrelatorStateless ==
  /\ [][SecondRun => output' = output]_vars
  /\ []ReflectsStore

\* C25 witness: a run in mode ack-only has emitted no record for an
\* initiation whose acknowledgment row says Err, right after a run in the
\* same mode.
C25_Witness ==
  /\ JustMatched("ack-only") /\ repeated
  /\ \E i \in BagToSet(source_inits) :
        /\ \E a \in BagToSet(source_acks) :
              SourceAckKey(a) = SourceInitKey(i) /\ a.result = "Err"
        /\ \A dir \in Directions : ~Emitted(dir, i.channel_id, i.nonce)
  /\ ops = MaxOps

(***************************************************************************)
(* The two scans and the correlator end to end, checked under PairSpec.    *)
(***************************************************************************)
DirectionFrom(A) == IF A = "domain" THEN "d2c" ELSE "c2d"

\* Block ha of chain A holds as record ja a signed initiation, and block hb
\* of the other chain holds as record jb a deposit with the same key.
SignedTransferSeen(A, ha, ja, hb, jb) ==
  LET ei == BlockEvents(A, ha)[ja]
      ed == BlockEvents(OtherChain(A), hb)[jb]
      exts == BlockExtrinsics(A, ha)
  IN  /\ Initiation(ei) /\ ei.decodable
      /\ ~StaleIndex(ei, exts) /\ ~UnverifiableOrigin(ei, exts)
      /\ Deposit(ed) /\ ed.decodable
      /\ ed.channel_id = ei.channel_id /\ ed.nonce = ei.nonce

\* The output of direction A -> B holds exactly one record for the key of
\* the transfer, with the signer, the deposited amount and, when the store
\* has no Ok acknowledgment for the key, confirmed_by = "dest".
OneRecordFor(A, ha, ja, hb, jb) ==
  LET ei == BlockEvents(A, ha)[ja]
      ed == BlockEvents(OtherChain(A), hb)[jb]
      signer == BlockExtrinsics(A, ha)[ei.phase[1] + 1].signer
      out == output[DirectionFrom(A)]
      recs == {r \in BagToSet(out) : r.channel_id = ei.channel_id /\ r.nonce = ei.nonce}
  IN  /\ Cardinality(recs) = 1
      /\ \A r \in recs :
            /\ out[r] = 1
            /\ r.from = signer
            /\ r.amount = (IF ed.amount # Null THEN ed.amount[1] ELSE "0")
            /\ ~HasOkAck(A, ei.channel_id, ei.nonce) => r.confirmed_by = "dest"

\* C26: once both scans are complete, a run of the correlator in mode
\* dest-only emits, for every signed initiation in the scanned range of a
\* chain whose deposit is in the scanned range of the other chain, exactly
\* one record in the direction of the transfer, with from = the signer,
\* amount = the deposited amount, and confirmed_by = "dest" when there is no
\* Ok acknowledgment.
C26_EndToEnd ==
  (JustMatched("dest-only") /\ \A c \in Chains : AllDone(c)) =>
    \A A \in Chains :
      \A ha \in opts[A].start .. opts[A].end,
         hb \in opts[OtherChain(A)].start .. opts[OtherChain(A)].end :
        \A ja \in 1 .. Len(BlockEvents(A, ha)),
           jb \in 1 .. Len(BlockEvents(OtherChain(A), hb)) :
          SignedTransferSeen(A, ha, ja, hb, jb) => OneRecordFor(A, ha, ja, hb, jb)

\* C26 witness: after both scans, with the acknowledgment of nonce 5 outside
\* the scanned range of domain, the run in mode dest-only has emitted the
\* record of the transfer of nonce 5 from domain to consensus.
C26_Witness ==
  /\ JustMatched("dest-only") /\ \A c \in Chains : AllDone(c)
  /\ SignedTransferSeen("domain", 1, 1, 2, 1)
  /\ opts["consensus"].end >= 2
  /\ \E r \in BagToSet(output["d2c"]) :
        /\ r.from = "addrA" /\ r.channel_id = 1 /\ r.nonce = "5"
        /\ r.amount = "95" /\ r.confirmed_by = "dest"

(***************************************************************************)
(* More properties of event extraction, checked under ExtractSpec.         *)
(***************************************************************************)
\* The step is a call of processXdmEvents.
Extraction == lastOp'.kind = "processXdmEvents" /\ ops' = ops + 1

CrossDomainEvent(rec) == Initiation(rec) \/ Deposit(rec) \/ Acknowledgment(rec)

\* C27: a call of processXdmEvents on a block none of whose events is an
\* OutgoingTransferInitiated, an IncomingTransferSuccessful or an
\* OutboxMessageResult leaves the three event tables and the EventFailure
\* records as they were.
C27_OtherEventsIgnored ==
  [][(Extraction /\ \A j \in DOMAIN lastOp'.row[1].events :
                       ~CrossDomainEvent(lastOp'.row[1].events[j]))
        => <<tables, event_failures>>' = <<tables, event_failures>>]_vars

\* C27 witness: a block of two events of other kinds, one in section system
\* and one in section messenger, has been processed against a store that
\* holds a row.
C27_Witness ==
  /\ lastOp.kind = "processXdmEvents"
  /\ Len(lastOp.row[1].events) = 2
  /\ \A j \in 1 .. 2 : ~CrossDomainEvent(lastOp.row[1].events[j])
  /\ lastOp.row[1].events[1].section = "system"
  /\ lastOp.row[1].events[2].section = "messenger"
  /\ source_inits # EmptyBag

\* The j-th record of the block is the last acknowledgment of its key.
LastAcknowledgment(events, j) ==
  /\ Acknowledgment(events[j]) /\ events[j].decodable
  /\ \A k \in DOMAIN events :
        (k > j /\ Acknowledgment(events[k]) /\ events[k].decodable)
           => events[k].nonce # events[j].nonce

\* C28: every row of source_acks has result Ok or Err, and after a call of
\* processXdmEvents the row of an OutboxMessageResult says Ok when the result
\* of the event is Ok and Err for every other result.
C28_AckResultOkOrErr ==
  /\ [](\A a \in BagToSet(source_acks) : a.result \in {"Ok", "Err"})
  /\ [][Extraction =>
          \A j \in DOMAIN lastOp'.row[1].events :
             LastAcknowledgment(lastOp'.row[1].events, j) =>
               \E a \in BagToSet(source_acks') :
                  /\ SourceAckKey(a) = <<lastOp'.chain, lastOp'.row[1].events[j].channel_id,
                                         lastOp'.row[1].events[j].nonce>>
                  /\ a.result = (IF lastOp'.row[1].events[j].result = "Ok"
                                 THEN "Ok" ELSE "Err")]_vars

\* C28 witness: a block with an acknowledgment whose result is neither Ok
\* nor Err and one whose result is Ok has been processed, and each has its
\* row.
C28_Witness ==
  /\ lastOp.kind = "processXdmEvents"
  /\ \E j \in DOMAIN lastOp.row[1].events :
        Acknowledgment(lastOp.row[1].events[j]) /\ lastOp.row[1].events[j].result = "Other"
  /\ \E j \in DOMAIN lastOp.row[1].events :
        Acknowledgment(lastOp.row[1].events[j]) /\ lastOp.row[1].events[j].result = "Ok"
  /\ BagCardinality(source_acks) = 2

(***************************************************************************)
(* The start-up of a capture process, checked under CaptureSpec.           *)
(***************************************************************************)
\* A required value is missing: the endpoint variable is unset, or a height
\* variable is unset or empty.
MissingValue(e) ==
  \/ e.url = Null
  \/ e.start \in {Null, Some("")}
  \/ e.end \in {Null, Some("")}

\* All required values are present: an endpoint list and two heights.
AllPresent(e) ==
  /\ e.url \in {Some("ws://a"), Some("ws://a,ws://b")}
  /\ e.start \in {Some("0"), Some("1"), Some("2")}
  /\ e.end \in {Some("0"), Some("1"), Some("2")}

NothingStored(c) ==
  Footprint(c) = <<EmptyBag, EmptyBag, EmptyBag, EmptyBag, Null>>

\* C29: a capture process whose environment lacks a required height bound or
\* the endpoint list never calls the chain, never writes to the store and
\* never starts the scan, and once it has failed it stays failed; a capture
\* process whose environment has all required values starts the scan.
C29_ConfigFaultIsFatal ==
  /\ [](\A c \in Chains :
          (environment[c] # Null /\ MissingValue(environment[c]))
             => ~apiCalls[c] /\ NothingStored(c) /\ capture[c] # "scan")
  /\ [](\A c \in Chains :
          (environment[c] # Null /\ AllPresent(environment[c]))
             => capture[c] # "exit")
  /\ [][\A c \in Chains : capture[c] = "exit" => capture'[c] = "exit"]_vars

(***************************************************************************)
(* The commit cursor of a run, checked under Spec.                         *)
(***************************************************************************)
\* C30: every worker sets its flag and advances the cursor in one step, so
\* within one run the heights written to ScanProgress are scanStart,
\* scanStart + 1, ... up to the cursor, each once and in increasing order,
\* and the ScanProgress row holds the last of them.
C30_CommitsInOrder ==
  \A c \in Chains :
     opts[c] # Null =>
       /\ commits[c] = [i \in 1 .. (nextToCommit[c] - scanStart[c]) |-> scanStart[c] + i - 1]
       /\ commits[c] # << >> => scan_progress[c] = Some(commits[c][Len(commits[c])])

\* C30 witness: a run with two workers is complete and has written four
\* heights.
C30_Witness ==
  \E c \in Chains :
     /\ opts[c] # Null /\ opts[c].blockConcurrency = 2
     /\ AllDone(c)
     /\ Len(commits[c]) = 4

(***************************************************************************)
(* More properties of the Block Scanner, checked under RetrySpec.          *)
(***************************************************************************)
\* C31: whatever the other workers are doing (waiting for the chain, or
\* sleeping before a retry), a worker that is trying a height can complete
\* it and a sleeping worker can wake up; a worker that has not finished
\* height h holds back only the cursor: every height this run has written to
\* ScanProgress is below h.
C31_BlockedWorkerHoldsNothing ==
  \A c \in Chains : \A w \in Workers(c) :
    /\ pc[c][w] = "fetch" => ENABLED FetchOk(c, w)
    /\ pc[c][w] = "sleep" => ENABLED Wake(c, w)
    /\ pc[c][w] # "done" =>
          /\ nextToCommit[c] <= h[c][w]
          /\ \A i \in DOMAIN commits[c] : commits[c][i] < h[c][w]

\* C31 witness: worker 1 is asleep after a second fault at its first
\* height, and worker 0 has meanwhile processed its two heights and finished;
\* the cursor stands at the height of worker 1.
C31_Witness ==
  \E c \in Chains :
    /\ opts[c] # Null /\ opts[c].blockConcurrency = 2
    /\ pc[c][1] = "sleep" /\ h[c][1] = scanStart[c] + 1 /\ Len(slept[c][1]) >= 2
    /\ pc[c][0] = "done" /\ Cardinality(handled[c][0]) = 2
    /\ nextToCommit[c] = h[c][1]

(***************************************************************************)
(* More properties of the commit cursor, checked under Spec.               *)
(***************************************************************************)
\* The heights x of the run of chain c such that every height of
\* [scanStart, x] is marked done.
DonePrefix(c) ==
  {x \in scanStart[c] .. opts[c].end :
     \A y \in scanStart[c] .. x : processedFlags[c][y - scanStart[c]]}

\* C34: between the steps of the workers the cursor stands past end or at a
\* height whose flag is not set; it stands right after the longest prefix of
\* heights marked done, and when that prefix is not empty ScanProgress holds
\* its last height.
C34_CursorAtEndOfPrefix ==
  \A c \in Chains :
    opts[c] # Null =>
      /\ nextToCommit[c] > opts[c].end
           \/ ~processedFlags[c][nextToCommit[c] - scanStart[c]]
      /\ DonePrefix(c) = {} => nextToCommit[c] = scanStart[c]
      /\ DonePrefix(c) # {} =>
           /\ nextToCommit[c] = MaxOf(DonePrefix(c)) + 1
           /\ scan_progress[c] = Some(MaxOf(DonePrefix(c)))

\* C34 witness: the prefix of heights marked done has two heights or more,
\* the cursor stands at a height a worker is still retrying, and a height
\* above the cursor is already marked done.
C34_Witness ==
  \E c \in Chains :
    /\ opts[c] # Null
    /\ Cardinality(DonePrefix(c)) >= 2
    /\ \E w \in Workers(c) : pc[c][w] = "sleep" /\ h[c][w] = nextToCommit[c]
    /\ DoneAboveCursor(c) # {}

(***************************************************************************)
(* Runs on a store that already holds a cursor, checked under RerunSpec.   *)
(***************************************************************************)
\* The store holds what the earlier scan of heights 1 .. p left, and nothing
\* else.
AsLeftAt(c, p) ==
  LET st == SinglePass(EmptyStore, c, 1, p)
  IN  /\ source_inits = st.inits
      /\ destination_successes = st.succs
      /\ source_acks = st.acks
      /\ event_failures = st.failures
      /\ scan_progress[c] = Some(p)

\* C35: a run over a range [start, end] with start <= end
\* that finds the cursor at end processes height end and no other
\* height, and the cursor stays at end; a run that finds the cursor above end
\* processes no height and leaves the store as it found it; a run that finds
\* the cursor inside [start, end] processes the cursor's height again.
C35_RerunOfCompleteRange ==
  \A c \in Chains :
    (opts[c] # Null /\ resumeFrom[c] # Null) =>
      LET p == resumeFrom[c][1]
      IN  /\ (p = opts[c].end /\ opts[c].start <= opts[c].end) =>
                /\ HandledBy(c) \subseteq {opts[c].end}
                /\ AllDone(c) => HandledBy(c) = {opts[c].end}
                /\ \A i \in DOMAIN commits[c] : commits[c][i] = opts[c].end
                /\ Len(commits[c]) <= 1
                /\ scan_progress[c] = Some(opts[c].end)
          /\ p > opts[c].end =>
                /\ AllDone(c) /\ HandledBy(c) = {}
                /\ restarts = 0 => AsLeftAt(c, p)
                /\ scan_progress[c] = Some(p)
          /\ (p >= opts[c].start /\ p <= opts[c].end /\ AllDone(c)) => p \in HandledBy(c)

\* C35 witness: a run with two workers found the cursor at end, above start,
\* and is complete: worker 0 has processed height end.
C35_Witness ==
  \E c \in Chains :
    /\ opts[c] # Null /\ opts[c].blockConcurrency = 2
    /\ resumeFrom[c] = Some(opts[c].end) /\ opts[c].end > opts[c].start
    /\ AllDone(c) /\ handled[c][0] = {opts[c].end} /\ handled[c][1] = {}
    /\ commits[c] = <<opts[c].end>>

(***************************************************************************)
(* The label and the mode of the Correlator, checked under StoreSpec.      *)
(***************************************************************************)
\* Two runs in a row, on the same store.
TwoRuns == lastOp.kind = "match" /\ lastOp'.kind = "match"

\* C36: the records two runs on the same store emit for the same key carry
\* the same confirmed_by, whatever the modes of the two runs; and a record
\* emitted in mode dest-only or ack-only whose key has a DestinationSuccess
\* and an Ok SourceAck is labelled "both".
C36_LabelIndependentOfMode ==
  /\ [][TwoRuns =>
          \A dir \in Directions :
             \A r1 \in BagToSet(output[dir]), r2 \in BagToSet(output'[dir]) :
                (r1.channel_id = r2.channel_id /\ r1.nonce = r2.nonce)
                   => r1.confirmed_by = r2.confirmed_by]_vars
  /\ []((JustMatched("dest-only") \/ JustMatched("ack-only")) =>
          \A dir \in Directions : \A rec \in BagToSet(output[dir]) :
             (/\ HasDestinationSuccess(OtherChain(SourceOf(dir)), rec.channel_id, rec.nonce)
              /\ HasOkAck(SourceOf(dir), rec.channel_id, rec.nonce))
                => rec.confirmed_by = "both")

\* C36 witness: a run in mode ack-only has emitted a record labelled "both".
C36_Witness ==
  /\ JustMatched("ack-only")
  /\ \E dir \in Directions : \E rec \in BagToSet(output[dir]) :
        /\ rec.confirmed_by = "both"
        /\ HasDestinationSuccess(OtherChain(SourceOf(dir)), rec.channel_id, rec.nonce)

\* C37: a run whose ACK_MODE is none of dest-only, ack-only and both runs
\* like any other and emits no record in either direction, whatever the
\* store holds; a run with ACK_MODE unset emits the records of the
\* initiations that have a DestinationSuccess, as mode dest-only does.
C37_UnknownModeEmitsNothing ==
  /\ \A env \in EnvAckModes : ENABLED Match(env)
  /\ (lastOp.kind = "match" /\ lastOp.env \notin {"", "dest-only", "ack-only", "both"})
        => \A dir \in Directions : output[dir] = EmptyBag
  /\ (lastOp.kind = "match" /\ lastOp.env = "") =>
        \A dir \in Directions : \A i \in InitsOn(SourceOf(dir)) :
           Emitted(dir, i.channel_id, i.nonce)
              <=> HasDestinationSuccess(OtherChain(i.source_chain), i.channel_id, i.nonce)

\* C37 witness: a run with ACK_MODE=all has emitted nothing from a store in
\* which an initiation has both its DestinationSuccess and its Ok SourceAck.
C37_Witness ==
  /\ lastOp.kind = "match" /\ lastOp.env = "all"
  /\ \A dir \in Directions : output[dir] = EmptyBag
  /\ \E i \in BagToSet(source_inits) :
        /\ HasDestinationSuccess(OtherChain(i.source_chain), i.channel_id, i.nonce)
        /\ HasOkAck(i.source_chain, i.channel_id, i.nonce)

(***************************************************************************)
(* Properties of the Chain Adapter.                                        *)
(***************************************************************************)
\* The capture of chain c has ended.
Aborted(c) == capture[c] = "exit"

\* A segment fetch has thrown inside a getEventsAt call of a worker.
SegmentFetchFailed == lastOp.kind = "getEventsAt" /\ lastOp.row[1].result.failed

\* C32: once a segment fetch has failed on a chain scanned with segmented
\* retrieval, system.events was not queried in its place, the capture of that
\* chain has ended, and the height of the failure is not processed.
C32_SegmentFailureAborts ==
  SegmentFetchFailed =>
    /\ ~lastOp.row[1].result.legacy
    /\ Aborted(lastOp.chain)
    /\ \A w \in Workers(lastOp.chain) : lastOp.height \notin handled[lastOp.chain][w]

\* A call with segmented retrieval that returned the segments' records.
SegmentedCall ==
  /\ lastOp.kind = "getEventsAt"
  /\ lastOp.row[1].useSegments /\ lastOp.row[1].node.offers
  /\ ~lastOp.row[1].result.threw /\ ~lastOp.row[1].result.legacy

\* events is a subsequence of `of` that keeps the first record of each key.
FirstOccurrences(events, of) ==
  \E pick \in SUBSET (1 .. Len(of)) :
     /\ \A i \in pick : \A j \in 1 .. (i - 1) : KeyOf(of[j]) # KeyOf(of[i])
     /\ \A j \in 1 .. Len(of) : \E i \in pick : KeyOf(of[i]) = KeyOf(of[j])
     /\ Cardinality(pick) = Len(events)
     /\ \A k \in 1 .. Len(events) :
          \E i \in pick : Cardinality({j \in pick : j < i}) = k - 1 /\ events[k] = of[i]

\* C33: the list a segmented call returns holds no two records with the same
\* (section, method, data, phase); it is the records of the fetched segments
\* in segment order with every record after the first of its key left out.
C33_SegmentsDeduplicated ==
  SegmentedCall =>
    LET events == lastOp.row[1].result.events
        node == lastOp.row[1].node
    IN  /\ \A i, j \in 1 .. Len(events) : i # j => KeyOf(events[i]) # KeyOf(events[j])
        /\ \E last \in (0 - 1) .. (Len(node.segments) - 1) :
              FirstOccurrences(events, Flatten(node, 0, last))

(***************************************************************************)
(* Properties of the page writers of the export script.                    *)
(***************************************************************************)
\* The rows of the pages `pages` of size pageSize, in the order of `pages`.
RECURSIVE RowsOfPages(_, _, _, _)
RowsOfPages(server, pageSize, pages, k) ==
  IF k > Len(pages) THEN << >>
  ELSE fetchPage(server, pages[k] * pageSize, pageSize)
         \o RowsOfPages(server, pageSize, pages, k + 1)

\* The number of pages awaited before the first empty or short one.
RECURSIVE FullBefore(_, _, _)
FullBefore(consumed, pageSize, k) ==
  IF k > Len(consumed) \/ consumed[k] < pageSize THEN 0
  ELSE 1 + FullBefore(consumed, pageSize, k + 1)

\* Rows from, from+1, ... of the result, n of them.
RowsFrom(from, n) == [k \in 1 .. n |-> from + k - 1]

PagesWrittenInOrder ==
  export.fn = "writeRowsWithConcurrency" =>
    /\ \A i, j \in 1 .. Len(export.pages) : i < j => export.pages[i] < export.pages[j]
    /\ export.file = RowsOfPages(export.server, export.pageSize, export.pages, 1)
    /\ export.nextToSchedule =
         Max2(1, export.concurrency) + FullBefore(export.consumed, export.pageSize, 1)
    /\ export.result # Null =>
         /\ export.result[1] = Len(export.file)
         /\ export.server.cap >= export.pageSize =>
              /\ export.result[1] = export.server.total
              /\ export.file = RowsFrom(0, export.server.total)

\* C38: the pages written have ascending indices (so none is written twice)
\* and the file holds their rows in that order, in whatever order the
\* requests were answered; the number of pages scheduled is the seed plus the
\* number of pages awaited before the first empty or short one; the function
\* returns; what it returns is the number of rows written, and with a server
\* that returns pageSize rows while rows remain, all rows of the result.
C38_PagesInOrder == []PagesWrittenInOrder /\ <>(export.result # Null)

\* C38 witness: the loop has written a page and awaits the next one, whose
\* request is still unanswered while a later page that holds rows has been
\* answered.
C38_Witness ==
  /\ export.fn = "writeRowsWithConcurrency"
  /\ Len(export.pages) >= 1 /\ export.result = Null
  /\ export.page \in DOMAIN export.inFlight /\ export.inFlight[export.page] = Null
  /\ \E i \in DOMAIN export.inFlight :
        /\ i > export.page /\ export.inFlight[i] # Null /\ export.inFlight[i][1] # << >>

SequentialWritesAll ==
  export.fn = "writeRowsSequential" =>
    /\ export.file = RowsFrom(export.startOffset, export.rowCount)
    /\ export.offset = export.startOffset + export.rowCount
    /\ \A k \in 1 .. Len(export.fetched) :
          export.fetched[k] = 0 <=> (export.result # Null /\ k = Len(export.fetched))
    /\ export.result # Null =>
         /\ export.result[1] = Len(export.file)
         /\ Len(export.file) = Max2(0, export.server.total - export.startOffset)

\* C39: the rows written are rows startOffset, startOffset+1, ... of the
\* result in order, none skipped and none twice, also when the server returns
\* fewer rows than requested; the function returns at the first empty page,
\* when all rows from startOffset on are written, and returns their number.
C39_SequentialNoSkip == []SequentialWritesAll /\ <>(export.result # Null)

\* C39 witness: the function has returned after at least two pages that were
\* shorter than requested, from a start offset above 0.
C39_Witness ==
  /\ export.fn = "writeRowsSequential" /\ export.result # Null
  /\ export.server.cap < export.pageSize /\ export.startOffset > 0
  /\ export.pageIndex >= 2 /\ export.result[1] >= 2

(***************************************************************************)
(* Properties of the sequential domain capture, checked under              *)
(* SequentialSpec.                                                         *)
(***************************************************************************)
\* Everything the extraction of the block at `height` writes is in the store.
SequentialBlockStored(c, height) ==
  LET st == processXdmEvents(EmptyStore, c, BlockEvents(c, blockAt(height)),
                             BlockExtrinsics(c, blockAt(height)), height)
  IN  /\ BagToSet(st.inits) \subseteq BagToSet(source_inits)
      /\ BagToSet(st.succs) \subseteq BagToSet(destination_successes)
      /\ BagToSet(st.acks) \subseteq BagToSet(source_acks)
      /\ BagToSet(st.failures) \subseteq BagToSet(event_failures)

\* C40: in the sequential capture every cursor write is at a multiple of
\* 100; the cursor is written no later than the processing of its height (it
\* may name the height the loop is at, and every height below it is stored);
\* a run starts at max(START, cursor), the cursor's height included; and
\* when the loop has ended, after any number of crashes and restarts, every
\* height of [START, END] is stored and every height from the run's first
\* height on was processed by this run.
C40_SequentialNoGap ==
  \A c \in Chains :
    opts[c] # Null =>
      /\ \A i \in 1 .. Len(commits[c]) :
            /\ commits[c][i] % CHECKPOINT_EVERY = 0
            /\ commits[c][i] \in handled[c][0] \/ commits[c][i] = h[c][0]
      /\ scan_progress[c] # Null =>
            /\ scan_progress[c][1] % CHECKPOINT_EVERY = 0
            /\ scan_progress[c][1] <= h[c][0]
            /\ \A height \in opts[c].start .. (scan_progress[c][1] - 1) :
                  SequentialBlockStored(c, height)
      /\ scanStart[c] = IF resumeFrom[c] = Null THEN opts[c].start
                        ELSE Max2(opts[c].start, resumeFrom[c][1])
      /\ pc[c][0] = "done" =>
            \A height \in opts[c].start .. opts[c].end :
               /\ SequentialBlockStored(c, height)
               /\ height >= scanStart[c] => height \in handled[c][0]

\* C40 witness: a capture from one height below a checkpoint was restarted,
\* found the cursor at the checkpoint, processed the checkpoint's height
\* again and has ended.
C40_Witness ==
  /\ opts["domain"] # Null /\ restarts > 0
  /\ opts["domain"].start < CHECKPOINT_EVERY
  /\ resumeFrom["domain"] = Some(CHECKPOINT_EVERY)
  /\ scanStart["domain"] = CHECKPOINT_EVERY
  /\ CHECKPOINT_EVERY \in handled["domain"][0]
  /\ pc["domain"][0] = "done"

====
